---- MODULE Spec2Model ----
(***************************************************************************)
(* Model of tabby-sync-gdrive: the sanitize -> encrypt -> merge -> apply   *)
(* pipeline (sanitize.util.ts, merge.util.ts) and the SyncService that     *)
(* sequences it against the config store and the Drive blob.               *)
(*                                                                         *)
(* Specifications:                                                         *)
(*   SpecSanitize  sanitizeProfile and createSyncPayload applied to        *)
(*                 bounded raw profiles                                    *)
(*   SpecMerge     mergeProfile / mergePayloads / mergeSettings /          *)
(*                 mergeGroups / applyPayloadToConfig on bounded inputs    *)
(*   Spec          one machine's SyncService: tasks, events, faults        *)
(*   SpecFleet     two machines sharing one remote blob                    *)
(*   SpecDebounce  the debounced change watcher, with a clock              *)
(*   SpecRetry     one call of retryWithBackoff                            *)
(*   SpecPath      PathMapper on POSIX and Windows paths                   *)
(*   SpecCrypto    CryptoService: encrypt, a change in transit, decrypt    *)
(*   SpecPassword  setupMasterPassword / setMasterPassword / clearPassword  *)
(*   SpecAuto      the auto-sync path alone, with fair scheduling           *)
(*   SpecFull      fullSync alone, with a failing Drive                     *)
(*   SpecGrow      two machines that add profiles between syncs             *)
(***************************************************************************)
EXTENDS Integers, Sequences, FiniteSets, TLC

VARIABLES
  \* ---- SpecSanitize
  profile,        \* the raw profile handed to sanitizeProfile
  sanitizedOut,   \* what sanitizeProfile returned (Pending before the call)
  payloadOut,     \* what createSyncPayload returned (Pending before the call)
  \* ---- SpecMerge
  mIn,            \* inputs of the merge under test
  mOut,           \* its result ("pending" before the call)
  \* ---- Spec: one machine's SyncService
  cfg,            \* the local raw configuration (config store)
  plugin,         \* config.store.gdrivesync bookkeeping (lastSyncError, ...)
  driveFile,      \* the Drive blob: what uploadSyncFile last stored
  masterPassword, \* SyncService.masterPassword ("null" when cleared)
  connected,      \* DriveService.isConnected()
  isApplyingRemote, \* SyncService.isApplyingRemote
  watching,       \* configChangeSub # null
  status,         \* syncState.status
  timer,          \* the debounce timer of startWatchingChanges: the kinds of
                  \* change event waiting in it (empty when it is not armed)
  task,           \* per task: the async call in flight and its position
  faults,         \* the collaborators that currently fail (Drive, config store)
  now,            \* Date.now()
  events,         \* how many environment events have happened
  \* ---- SpecFleet
  fleet,          \* two machines and their shared blob
  \* ---- SpecDebounce
  debounce,       \* the change watcher: its clock, its timer, its calls
  \* ---- SpecRetry
  retry,          \* one call of retryWithBackoff
  \* ---- SpecPath
  mapper,         \* one path taken through PathMapper
  \* ---- SpecCrypto
  crypt,          \* one envelope taken through CryptoService
  \* ---- SpecPassword
  vault           \* the stored password hash and the password held in memory

sanVars   == <<profile, sanitizedOut, payloadOut>>
mergeVars == <<mIn, mOut>>
sysVars   == <<cfg, plugin, driveFile, masterPassword, connected, isApplyingRemote,
               watching, status, timer, task, faults, now, events>>
vars      == <<profile, sanitizedOut, payloadOut, mIn, mOut, cfg, plugin, driveFile,
               masterPassword, connected, isApplyingRemote, watching, status,
               timer, task, faults, now, events, fleet, debounce, retry,
               mapper, crypt, vault>>
timedVars == <<debounce, retry>>
pureVars  == <<mapper, crypt, vault>>

(***************************************************************************)
(* JSON values.  Every value is a record of one shape so that any two can  *)
(* be compared: t is the JavaScript kind, s the scalar's text, f the       *)
(* object's own keys, e the array's elements.  A key that is absent and a  *)
(* key holding undefined are the same thing here, as they are for          *)
(* JSON.stringify, yaml.dump and every `!== undefined` test of the source. *)
(***************************************************************************)
Str(x)    == [t |-> "s", s |-> x, f |-> <<>>, e |-> <<>>]
Bool(x)   == [t |-> "b", s |-> x, f |-> <<>>, e |-> <<>>]
Num(x)    == [t |-> "i", s |-> x, f |-> <<>>, e |-> <<>>]
Obj(r)    == [t |-> "o", s |-> "", f |-> r, e |-> <<>>]
Arr(q)    == [t |-> "a", s |-> "", f |-> <<>>, e |-> q]
Undefined == [t |-> "u", s |-> "", f |-> <<>>, e |-> <<>>]
Null      == [t |-> "n", s |-> "", f |-> <<>>, e |-> <<>>]
EmptyObj  == Obj(<<>>)
\* the result slot of a call that has not been made yet
Pending   == [t |-> "p", s |-> "", f |-> <<>>, e |-> <<>>]

\* obj[k]
Get(obj, k) == IF obj.t = "o" /\ k \in DOMAIN obj.f THEN obj.f[k] ELSE Undefined
\* obj[k] = v
Put(obj, k, v) ==
  IF v = Undefined
  THEN Obj([x \in DOMAIN obj.f \ {k} |-> obj.f[x]])
  ELSE Obj([x \in DOMAIN obj.f \cup {k} |-> IF x = k THEN v ELSE obj.f[x]])
\* Object.keys(obj)
Keys(obj) == IF obj.t = "o" THEN DOMAIN obj.f ELSE {}
\* JavaScript truthiness
Truthy(v) ==
  CASE v.t \in {"u", "n"} -> FALSE
    [] v.t = "s" -> v.s # ""
    [] v.t = "b" -> v.s = "true"
    [] v.t = "i" -> v.s # "0"
    [] OTHER -> TRUE
\* v !== null && typeof v === 'object'
IsObject(v) == v.t \in {"o", "a"}

\* JSON.parse(JSON.stringify(v)): undefined members are dropped from objects
\* and become null in arrays.
RECURSIVE JsonClone(_)
JsonClone(v) ==
  CASE v.t = "o" ->
         Obj([k \in {x \in DOMAIN v.f : v.f[x] # Undefined} |-> JsonClone(v.f[k])])
    [] v.t = "a" ->
         Arr([i \in DOMAIN v.e |->
                IF v.e[i] = Undefined THEN Null ELSE JsonClone(v.e[i])])
    [] OTHER -> v

(***************************************************************************)
(* sanitize.util.ts                                                        *)
(***************************************************************************)
FORBIDDEN_PROFILE_FIELDS ==
  {"privateKey", "privateKeys", "privateKeyPath", "privateKeyPaths", "keyPath",
   "keyPaths", "identityFile", "identityFiles", "proxyCommand",
   "scriptBeforeConnect", "scriptAfterConnect"}

\* removes the keys at this level only (the bug deepRemoveKeys guards against)
deepRemoveKeys_shallow(obj, keysToRemove) ==
  IF obj.t = "o"
  THEN Obj([k \in DOMAIN obj.f \ keysToRemove |-> obj.f[k]])
  ELSE obj

RECURSIVE deepRemoveKeys(_, _)
deepRemoveKeys(obj, keysToRemove) ==
  CASE obj.t = "a" ->
         Arr([i \in DOMAIN obj.e |-> deepRemoveKeys(obj.e[i], keysToRemove)])
    [] obj.t = "o" ->
         Obj([k \in DOMAIN obj.f \ keysToRemove |->
                IF IsObject(obj.f[k])
                THEN deepRemoveKeys(obj.f[k], keysToRemove)
                ELSE obj.f[k]])
    [] OTHER -> obj

\* the allow-list of options keys, in the order the source copies them
safeOptionKeys ==
  {"host", "port", "user", "auth", "password", "algorithms",
   "keepaliveInterval", "keepaliveCountMax", "readyTimeout", "x11",
   "agentForward", "jumpHost", "cwd"}

\* PathMapper.toPortablePath on the values the profile models carry: a
\* string under the home directory becomes $TABBY_SYNC_HOME/<rest>; any
\* other value is returned as it is.
HomeDir  == "/home/user"
HOME_VAR == "$TABBY_SYNC_HOME"
LocalPaths    == {"/home/user/work", "/srv/data"}
toPortablePath(localPath) ==
  IF localPath.t # "s" THEN localPath
  ELSE IF localPath.s = "/home/user/work" THEN Str("$TABBY_SYNC_HOME/work")
  ELSE localPath

\* top-level fields copied when truthy, and those copied when not undefined
TruthyCopied  == {"group", "icon", "color", "behaviorOnSessionEnd"}
DefinedCopied == {"weight", "disableDynamicTitle"}

sanitizeOptions(opts) ==
  Obj([k \in {x \in safeOptionKeys : Get(opts, x) # Undefined} |->
         IF k = "cwd" THEN toPortablePath(Get(opts, k)) ELSE Get(opts, k)])

\* the check of the id is left out
sanitizeProfile_typeOnly(p) ==
  IF ~Truthy(Get(p, "type")) THEN Null
  ELSE deepRemoveKeys(p, FORBIDDEN_PROFILE_FIELDS)

sanitizeProfile(p) ==
  IF ~Truthy(Get(p, "type")) THEN Null
  ELSE IF ~Truthy(Get(p, "id")) THEN Null
  ELSE
    LET sanitized == deepRemoveKeys(JsonClone(p), FORBIDDEN_PROFILE_FIELDS)
        top == {"id", "name", "type"}
                 \cup {k \in TruthyCopied : Truthy(Get(sanitized, k))}
                 \cup {k \in DefinedCopied : Get(sanitized, k) # Undefined}
                 \cup (IF Truthy(Get(sanitized, "options"))
                          /\ IsObject(Get(sanitized, "options"))
                       THEN {"options"} ELSE {})
    IN Obj([k \in top |->
              CASE k = "id" -> Get(p, "id")
                [] k = "type" -> Get(p, "type")
                [] k = "name" -> IF Truthy(Get(sanitized, "name"))
                                 THEN Get(sanitized, "name")
                                 ELSE Str("Unnamed Profile")
                [] k = "options" -> sanitizeOptions(Get(sanitized, "options"))
                [] OTHER -> Get(sanitized, k)])

\* a forbidden key occurs in v, at any depth
RECURSIVE HasForbidden(_)
HasForbidden(v) ==
  CASE v.t = "o" -> \/ DOMAIN v.f \cap FORBIDDEN_PROFILE_FIELDS # {}
                    \/ \E k \in DOMAIN v.f : HasForbidden(v.f[k])
    [] v.t = "a" -> \E i \in DOMAIN v.e : HasForbidden(v.e[i])
    [] OTHER -> FALSE

\* removeUndefined(obj) restricted to the allow-listed keys the source copies
PickDefined(section, allowed) ==
  Obj([k \in {x \in allowed : Get(section, x) # Undefined} |-> Get(section, k)])

TerminalFields ==
  {"frontend", "fontSize", "fontFamily", "fontWeight", "fontWeightBold",
   "ligatures", "cursor", "cursorBlink", "bell", "bracketedPaste",
   "scrollbackLines", "rightClick", "wordSeparator", "copyOnSelect",
   "pasteOnMiddleClick", "shellIntegration", "searchOptions", "autoOpen",
   "warnOnMultiLinePaste", "altIsMeta", "scrollOnInput", "focusOnCreation",
   "hideCloseButton", "hideTabOptions"}
AppearanceFields ==
  {"theme", "frame", "opacity", "vibrancy", "tabsOnTop", "dockPosition",
   "spaciness", "colorSchemeMode", "css", "font", "fontSize",
   "lastTabClosesWindow"}
SshFields == {"warnOnClose", "agentType", "x11Display"}
ApplicationFields ==
  {"restoreTerminalOnStartup", "enableAnalytics", "enableAutoupdate", "language"}
WindowFields ==
  {"startInTray", "startMinimized", "closeToTray", "confirmClose",
   "restoreWindowProtocol"}

IsSection(config, k) == Truthy(Get(config, k)) /\ IsObject(Get(config, k))

sanitizeTerminal(term) ==
  LET plain == PickDefined(term, TerminalFields)
      bg == Put(plain, "background", toPortablePath(Get(term, "background")))
      cs == IF IsSection(term, "colorScheme")
            THEN Put(bg, "colorScheme", Get(term, "colorScheme")) ELSE bg
      lcs == IF IsSection(term, "lightColorScheme")
             THEN Put(cs, "lightColorScheme", Get(term, "lightColorScheme")) ELSE cs
  IN IF Get(term, "customColorSchemes").t = "a"
     THEN Put(lcs, "customColorSchemes", Get(term, "customColorSchemes")) ELSE lcs

sanitizeQuickCmds(q) ==
  Obj([k \in {x \in {"commands", "groups"} : Get(q, x).t = "a"} |-> Get(q, k)])

sanitizeSettings(config) ==
  LET sections ==
        {k \in {"terminal", "appearance", "hotkeys", "ssh", "quick-cmds",
                "application", "window"} : IsSection(config, k)}
        \cup {k \in {"colorSchemes", "pluginBlacklist"} : Get(config, k).t = "a"}
      outKey(k) == IF k = "quick-cmds" THEN "quickCmds" ELSE k
      inKey(k)  == IF k = "quickCmds" THEN "quick-cmds" ELSE k
  IN Obj([k \in {outKey(x) : x \in sections} |->
            CASE k = "terminal" -> sanitizeTerminal(Get(config, k))
              [] k = "appearance" -> PickDefined(Get(config, k), AppearanceFields)
              [] k = "ssh" -> PickDefined(Get(config, k), SshFields)
              [] k = "application" -> PickDefined(Get(config, k), ApplicationFields)
              [] k = "window" -> PickDefined(Get(config, k), WindowFields)
              [] k = "quickCmds" -> sanitizeQuickCmds(Get(config, inKey(k)))
              [] OTHER -> Get(config, k)])

\* the elements of an array value (the empty sequence for anything else)
Elems(v) == IF v.t = "a" THEN v.e ELSE <<>>

\* q.filter(Keep): the elements of q that satisfy Keep, in order
Filter(q, Keep(_)) == SelectSeq(q, Keep)

sanitizeGroup(g) ==
  Obj([k \in {x \in {"id", "name", "collapsed"} : Get(g, x) # Undefined} |-> Get(g, k)])

sanitizeVault(v) ==
  IF ~(Truthy(v) /\ IsObject(v)) THEN Undefined
  ELSE LET isStr(k) == Get(v, k).t = "s"
           copied == Obj([k \in {x \in {"iv", "keySalt", "contents"} : isStr(x)}
                                  \cup {x \in {"version"} : Get(v, x).t = "i"} |->
                            Get(v, k)])
       IN IF ~Truthy(Get(copied, "contents")) THEN Undefined ELSE copied

\* profiles dropped by sanitizeProfile (no id, no type) are left out
createSyncPayload_keepAll(config, hostname, installedPlugins, time) ==
  [version |-> 1, lastUpdated |-> time, sourceHost |-> hostname,
   profiles |-> Elems(Get(config, "profiles")),
   groups |-> <<>>, vault |-> Undefined, settings |-> EmptyObj]

createSyncPayload(config, hostname, installedPlugins, time) ==
  LET raw == Filter(Elems(Get(config, "profiles")), IsObject)
      san == [i \in DOMAIN raw |-> sanitizeProfile(raw[i])]
      grp == IF Truthy(Get(config, "groups")) THEN Elems(Get(config, "groups")) ELSE <<>>
  IN [version |-> 1,
      lastUpdated |-> time,
      sourceHost |-> hostname,
      profiles |-> Filter(san, Truthy),
      groups |-> [i \in DOMAIN grp |-> sanitizeGroup(grp[i])],
      vault |-> sanitizeVault(Get(config, "vault")),
      settings |-> Put(sanitizeSettings(config), "installedPlugins", installedPlugins)]

(***************************************************************************)
(* merge.util.ts                                                           *)
(***************************************************************************)
RECURSIVE deepMerge(_, _)
deepMerge(target, source) ==
  LET plainObj(v) == v.t = "o"
  IN Obj([k \in Keys(target) \cup Keys(source) |->
            IF k \notin Keys(source) THEN Get(target, k)
            ELSE IF plainObj(Get(source, k)) /\ plainObj(Get(target, k))
                 THEN deepMerge(Get(target, k), Get(source, k))
                 ELSE Get(source, k)])

syncableFields ==
  {"name", "type", "group", "icon", "color", "weight", "disableDynamicTitle",
   "behaviorOnSessionEnd"}
safeOptionFields ==
  {"host", "port", "user", "auth", "password", "algorithms",
   "keepaliveInterval", "keepaliveCountMax", "readyTimeout", "x11",
   "agentForward", "jumpHost"}

\* the password is merged like every other option: local wins keep it empty
mergeOptions_noBootstrap(mergedOptions, remoteOptions, localWins) ==
  LET localOptions == IF Truthy(mergedOptions) THEN mergedOptions ELSE EmptyObj
      takes(k) ==
        /\ k \in safeOptionFields
        /\ Get(remoteOptions, k) # Undefined
        /\ ~(localWins /\ Get(localOptions, k) # Undefined)
  IN Obj([k \in Keys(localOptions) \cup {x \in Keys(remoteOptions) : takes(x)} |->
            IF takes(k) THEN Get(remoteOptions, k) ELSE Get(localOptions, k)])

\* the options block of mergeProfile
mergeOptions(mergedOptions, remoteOptions, localWins) ==
  LET localOptions == IF Truthy(mergedOptions) THEN mergedOptions ELSE EmptyObj
      takes(k) ==
        /\ k \in safeOptionFields
        /\ Get(remoteOptions, k) # Undefined
        /\ IF k = "password" THEN ~Truthy(Get(localOptions, k))
           ELSE ~(localWins /\ Get(localOptions, k) # Undefined)
  IN Obj([k \in Keys(localOptions) \cup {x \in Keys(remoteOptions) : takes(x)} |->
            IF takes(k) THEN Get(remoteOptions, k) ELSE Get(localOptions, k)])

\* the remote side always wins: localWins is ignored
mergeProfile_remoteAlways(localProfile, remoteProfile, localWins) ==
  LET merged == JsonClone(localProfile)
  IN Obj([k \in Keys(merged) \cup (Keys(remoteProfile) \cap syncableFields) |->
            IF k \in Keys(remoteProfile) \cap syncableFields
            THEN Get(remoteProfile, k) ELSE Get(merged, k)])

\* starts from the remote profile: local-only fields (private keys) are lost
mergeProfile_fromRemote(localProfile, remoteProfile, localWins) ==
  remoteProfile

mergeProfile(localProfile, remoteProfile, localWins) ==
  LET merged == JsonClone(localProfile)
      takes(k) ==
        /\ k \in syncableFields
        /\ Get(remoteProfile, k) # Undefined
        /\ ~(localWins /\ Get(merged, k) # Undefined)
      top == Obj([k \in Keys(merged) \cup {x \in Keys(remoteProfile) : takes(x)} |->
                    IF takes(k) THEN Get(remoteProfile, k) ELSE Get(merged, k)])
  IN IF Truthy(Get(remoteProfile, "options"))
     THEN Put(top, "options",
              mergeOptions(Get(merged, "options"), Get(remoteProfile, "options"),
                           localWins))
     ELSE top

\* no id is ever seen: every remote profile looks new
IdsOf_none(q) == {}

\* ids of a list of values
IdsOf(q) == {Get(q[i], "id") : i \in DOMAIN q}

\* every remote group is appended, the ones the local side has too
mergeGroups_appendAll(localGroups, remoteGroups) ==
  [merged |-> localGroups \o remoteGroups,
   added |-> [i \in DOMAIN remoteGroups |-> Get(remoteGroups[i], "id")]]

\* a group on both sides takes the remote representation
mergeGroups_remoteWins(localGroups, remoteGroups) ==
  LET remoteAt(g) ==
        IF \E i \in DOMAIN remoteGroups : Get(remoteGroups[i], "id") = Get(g, "id")
        THEN remoteGroups[CHOOSE i \in DOMAIN remoteGroups :
                            Get(remoteGroups[i], "id") = Get(g, "id")]
        ELSE g
      fresh == SelectSeq(remoteGroups,
                         LAMBDA g : \A i \in DOMAIN localGroups :
                                       Get(localGroups[i], "id") # Get(g, "id"))
  IN [merged |-> [i \in DOMAIN localGroups |-> remoteAt(localGroups[i])] \o fresh,
      added |-> [i \in DOMAIN fresh |-> Get(fresh[i], "id")]]

mergeGroups(localGroups, remoteGroups) ==
  LET isNew(g) == Get(g, "id") \notin IdsOf(localGroups)
      fresh == Filter(remoteGroups, isNew)
  IN [merged |-> localGroups \o fresh,
      added |-> [i \in DOMAIN fresh |-> Get(fresh[i], "id")]]

\* local wins at every leaf
mergeSettings_localWins(localSettings, remoteSettings) ==
  deepMerge(remoteSettings, localSettings)

mergeSettings(localSettings, remoteSettings) ==
  deepMerge(localSettings, remoteSettings)

\* find without the comparison of ids: the first element, if there is one
FindById_first(q, id) == IF Len(q) > 0 THEN q[1] ELSE Undefined

\* remote.profiles.find(p => p.id === id), Undefined when there is none
FindById(q, id) ==
  IF \E i \in DOMAIN q : Get(q[i], "id") = id
  THEN q[CHOOSE i \in DOMAIN q :
           /\ Get(q[i], "id") = id
           /\ \A j \in DOMAIN q : Get(q[j], "id") = id => i <= j]
  ELSE Undefined

\* Map.get after inserting every element under its id: the last one wins
LastById(q, id) ==
  IF \E i \in DOMAIN q : Get(q[i], "id") = id
  THEN q[CHOOSE i \in DOMAIN q :
           /\ Get(q[i], "id") = id
           /\ \A j \in DOMAIN q : Get(q[j], "id") = id => j <= i]
  ELSE Undefined

\* JSON.stringify(v): the text is compared only for equality, and two values
\* of this model print alike exactly when they are equal once undefined
\* members are dropped (the order of keys is not modelled).
JSONstringify(v) == JsonClone(v)

SyncableProjection ==
  {"id", "name", "type", "group", "icon", "color", "options", "weight",
   "disableDynamicTitle", "behaviorOnSessionEnd"}

\* the remote vault is preferred when both sides hold one
mergeVault_remoteFirst(localVault, remoteVault) ==
  LET whole(v) == PickDefined(v, {"iv", "keySalt", "contents", "version"})
  IN IF Truthy(remoteVault) /\ Truthy(Get(remoteVault, "contents")) THEN whole(remoteVault)
     ELSE IF Truthy(localVault) /\ Truthy(Get(localVault, "contents"))
          THEN whole(localVault)
          ELSE Undefined

mergeVault(localVault, remoteVault) ==
  LET whole(v) == PickDefined(v, {"iv", "keySalt", "contents", "version"})
  IN IF Truthy(localVault) /\ Truthy(Get(localVault, "contents")) THEN whole(localVault)
     ELSE IF Truthy(remoteVault) /\ Truthy(Get(remoteVault, "contents"))
          THEN whole(remoteVault)
          ELSE Undefined

Max(a, b) == IF a >= b THEN a ELSE b

\* a tie goes to the remote side
localIsNewer_strict(local, remote) == local.lastUpdated > remote.lastUpdated

\* which side wins scalar conflicts: ties favour local
localIsNewer(local, remote) == local.lastUpdated >= remote.lastUpdated

\* drops the profiles that exist only locally
mergePayloads_dropLocalOnly(local, remote, localConfig, time) ==
  [mergedPayload |-> [remote EXCEPT !.lastUpdated = time],
   conflicts |-> <<>>, addedProfiles |-> <<>>, updatedProfiles |-> <<>>,
   addedGroups |-> <<>>]

mergePayloads(local, remote, localConfig, time) ==
  LET original == Filter(Elems(Get(localConfig, "profiles")),
                         LAMBDA p : IsObject(p) /\ "id" \in Keys(p))
      inBoth(lp) == Truthy(FindById(remote.profiles, Get(lp, "id")))
      mergedOne(lp) ==
        LET remoteProfile == FindById(remote.profiles, Get(lp, "id"))
            found == LastById(original, Get(lp, "id"))
            originalLocal == IF Truthy(found) THEN found ELSE lp
            merged == mergeProfile(originalLocal, remoteProfile, localIsNewer(local, remote))
        IN IF inBoth(lp) THEN PickDefined(merged, SyncableProjection) ELSE lp
      differ(lp) ==
        /\ inBoth(lp)
        /\ JSONstringify(lp) #
             JSONstringify(FindById(remote.profiles, Get(lp, "id")))
      conflicting == Filter(local.profiles, differ)
      both == Filter(local.profiles, inBoth)
      remoteOnly == Filter(remote.profiles,
                           LAMBDA rp : Get(rp, "id") \notin IdsOf(local.profiles))
      groups == mergeGroups(local.groups, remote.groups)
  IN [mergedPayload |->
        [version |-> Max(local.version, remote.version),
         lastUpdated |-> time,
         sourceHost |-> local.sourceHost,
         profiles |-> [i \in DOMAIN local.profiles |-> mergedOne(local.profiles[i])]
                        \o remoteOnly,
         groups |-> groups.merged,
         vault |-> mergeVault(local.vault, remote.vault),
         settings |-> mergeSettings(local.settings, remote.settings)],
      conflicts |->
        [i \in DOMAIN conflicting |->
           [profileId |-> Get(conflicting[i], "id"),
            localProfile |-> conflicting[i],
            remoteProfile |-> FindById(remote.profiles, Get(conflicting[i], "id")),
            resolution |-> IF localIsNewer(local, remote) THEN "local" ELSE "remote"]],
      addedProfiles |-> [i \in DOMAIN remoteOnly |-> Get(remoteOnly[i], "id")],
      updatedProfiles |-> [i \in DOMAIN both |-> Get(both[i], "id")],
      addedGroups |-> groups.added]

\* pushes the payload's profiles as they are: the raw profile is dropped
applyProfiles_noOriginal(originalProfiles, syncedProfiles) == syncedProfiles

\* the profiles array applyPayloadToConfig rebuilds
applyProfiles(originalProfiles, syncedProfiles) ==
  LET original == Filter(originalProfiles, LAMBDA p : IsObject(p) /\ "id" \in Keys(p))
  IN [i \in DOMAIN syncedProfiles |->
        LET originalProfile == LastById(original, Get(syncedProfiles[i], "id"))
        IN IF Truthy(originalProfile)
           THEN mergeProfile(originalProfile, syncedProfiles[i], FALSE)
           ELSE syncedProfiles[i]]

applyPayloadToConfig(originalConfig, mergedPayload) ==
  LET config == JsonClone(originalConfig)
      st == mergedPayload.settings
      merged(k) == deepMerge(IF Truthy(Get(config, k)) THEN Get(config, k) ELSE EmptyObj,
                             Get(st, k))
      written ==
        {"profiles"}
          \cup (IF Len(mergedPayload.groups) > 0 THEN {"groups"} ELSE {})
          \cup (IF Truthy(mergedPayload.vault) /\ Truthy(Get(mergedPayload.vault, "contents"))
                THEN {"vault"} ELSE {})
          \cup {k \in {"terminal", "appearance", "hotkeys", "ssh", "pluginBlacklist",
                       "application", "window"} : Truthy(Get(st, k))}
          \cup (IF Truthy(Get(st, "colorSchemes")) /\ Len(Elems(Get(st, "colorSchemes"))) > 0
                THEN {"colorSchemes"} ELSE {})
  IN Obj([k \in Keys(config) \cup written |->
            IF k \notin written THEN Get(config, k)
            ELSE CASE k = "profiles" ->
                        Arr(applyProfiles(Elems(Get(config, "profiles")),
                                          mergedPayload.profiles))
                   [] k = "groups" -> Arr(mergedPayload.groups)
                   [] k = "vault" ->
                        PickDefined(mergedPayload.vault,
                                    {"version", "contents", "keySalt", "iv"})
                   [] k \in {"terminal", "appearance", "ssh", "application", "window"} ->
                        merged(k)
                   [] OTHER -> Get(st, k)])

(***************************************************************************)
(* SpecSanitize: sanitizeProfile on raw profiles that carry forbidden keys *)
(* at the top level, inside options, inside the allow-listed               *)
(* options.algorithms and inside objects nested in arrays.                 *)
(***************************************************************************)
MaxDepth == 2

Leaves == {Str("v")} \cup {Obj([k \in {fk} |-> Str("KEY")]) : fk \in FORBIDDEN_PROFILE_FIELDS}

\* values whose forbidden keys sit up to d levels below their root
RECURSIVE Nested(_)
Nested(d) ==
  IF d = 0 THEN Leaves
  ELSE LET N == Nested(d - 1)
       IN N \cup {Obj([kex |-> v]) : v \in N}
            \cup {Arr(<<v>>) : v \in N}
            \cup {Obj([keyPath |-> Str("KEY"), hmac |-> v]) : v \in N}

\* id and type as the config can hold them: a string, empty, or missing
IdTypeChoices ==
  {<<Str("p1"), Str("ssh")>>, <<Undefined, Str("ssh")>>, <<Str(""), Str("ssh")>>,
   <<Str("p1"), Undefined>>, <<Str("p1"), Str("")>>}

BaseOptions ==
  Obj([host |-> Str("h1"), password |-> Str("pw"),
       privateKeys |-> Arr(<<Str("KEY")>>), cwd |-> Str("/home/user/work")])

\* where the nested value is put in the raw profile
Placements == {"top", "options", "algorithms", "name"}

RawProfile(idv, tyv, place, v) ==
  LET base == Put(Put(Put(Obj([privateKey |-> Str("KEY"), weight |-> Str("1")]),
                          "id", idv), "type", tyv), "name", Str("n1"))
  IN CASE place = "top" -> Put(Put(base, "extra", v), "options", BaseOptions)
       [] place = "options" -> Put(base, "options", v)
       [] place = "algorithms" ->
            Put(base, "options", Put(BaseOptions, "algorithms", v))
       [] place = "name" -> Put(Put(base, "name", v), "options", BaseOptions)

RawProfiles ==
  {RawProfile(it[1], it[2], place, v) :
     it \in IdTypeChoices, place \in Placements, v \in Nested(MaxDepth)}

SysParked ==
  /\ cfg = "-" /\ plugin = "-" /\ driveFile = "-" /\ masterPassword = "-"
  /\ connected = "-" /\ isApplyingRemote = "-" /\ watching = "-"
  /\ status = "-" /\ timer = "-" /\ task = "-" /\ faults = "-" /\ now = "-"
  /\ events = "-"
SanParked   ==
  profile = Undefined /\ sanitizedOut = Pending /\ payloadOut = Pending
MergeParked == mIn = "-" /\ mOut = "-"
FleetParked == fleet = "-"
TimedParked == debounce = "-" /\ retry = "-"
PureParked  == mapper = "-" /\ crypt = "-" /\ vault = "-"

\* the profile that stands next to the one under test in the config
Sibling == RawProfile(Str("p2"), Str("serial"), "top", Str("v"))

\* the raw config createSyncPayload is given: the profile between two
\* entries, one of which is not an object
ConfigAround(p) == Obj([profiles |-> Arr(<<Str("stray"), p, Sibling>>)])

InitSanitize ==
  /\ profile \in RawProfiles
  /\ sanitizedOut = Pending
  /\ payloadOut = Pending
  /\ MergeParked /\ SysParked /\ FleetParked /\ TimedParked /\ PureParked

CallSanitizeProfile ==
  /\ sanitizedOut = Pending
  /\ sanitizedOut' = sanitizeProfile(profile)
  /\ UNCHANGED <<profile, payloadOut, mergeVars, sysVars, pureVars, fleet,
                 timedVars>>

CallCreateSyncPayload ==
  /\ payloadOut = Pending
  /\ payloadOut' = createSyncPayload(ConfigAround(profile), "hostA", Arr(<<>>), 1)
  /\ UNCHANGED <<profile, sanitizedOut, mergeVars, sysVars, pureVars, fleet,
                 timedVars>>

NextSanitize ==
  \/ CallSanitizeProfile
  \/ CallCreateSyncPayload
SpecSanitize == InitSanitize /\ [][NextSanitize]_vars

\* C2: for every profile with an id and a type (both strings), the value
\* sanitizeProfile returns is a profile and holds no forbidden key at any
\* nesting depth, wherever the input carried them.
C2_SanitizeRemovesForbidden ==
  (sanitizedOut # Pending /\ Truthy(Get(profile, "id")) /\ Truthy(Get(profile, "type")))
    => /\ sanitizedOut.t = "o"
       /\ ~HasForbidden(sanitizedOut)

\* the call returned a profile whose allow-listed options.algorithms was
\* copied from an input that held forbidden keys inside it, two levels down
C2_Witness ==
  /\ sanitizedOut # Pending
  /\ sanitizedOut # Null
  /\ HasForbidden(Get(Get(profile, "options"), "algorithms"))
  /\ Get(Get(profile, "options"), "algorithms").t = "o"
  /\ "hmac" \in Keys(Get(Get(sanitizedOut, "options"), "algorithms"))
  /\ Get(Get(Get(sanitizedOut, "options"), "algorithms"), "hmac").t = "a"
  /\ Get(profile, "privateKey") # Undefined

\* the profile has no id or no type, or an empty one
LacksIdOrType(p) == ~Truthy(Get(p, "id")) \/ ~Truthy(Get(p, "type"))

\* C24: for every profile whose id or type is missing or empty,
\* sanitizeProfile returns null, and the payload createSyncPayload builds
\* from a config holding that profile lists the config's other profile only.
C24_ProfilesWithoutIdOrTypeDropped ==
  LacksIdOrType(profile) =>
    /\ sanitizedOut # Pending => sanitizedOut = Null
    /\ payloadOut # Pending =>
         /\ Len(payloadOut.profiles) = 1
         /\ Get(payloadOut.profiles[1], "id") = Str("p2")
         /\ Get(payloadOut.profiles[1], "type") = Str("serial")

\* both calls were made on a profile that has a type, a name, options and
\* private keys but an empty id
C24_Witness ==
  /\ Get(profile, "id") = Str("")
  /\ Get(profile, "type") = Str("ssh")
  /\ sanitizedOut = Null
  /\ payloadOut # Pending
  /\ Len(payloadOut.profiles) = 1

(***************************************************************************)
(* SpecMerge: mergeProfile and mergePayloads on bounded inputs.  The local *)
(* payload is always createSyncPayload of the local raw config, as at the  *)
(* one call site (SyncService.syncFromRemote); the remote payload is       *)
(* createSyncPayload of some machine's raw config.                         *)
(***************************************************************************)
MaxStamp == 2

\* a raw profile as the config store holds it, private keys included
MergeRaw(id, name, host, password, group) ==
  LET options == Put(Obj([host |-> Str(host),
                          privateKeys |-> Arr(<<Str("KEY")>>),
                          cwd |-> Str("/home/user/work")]),
                     "password", password)
  IN Put(Put(Obj([id |-> Str(id), type |-> Str("ssh"),
                  privateKey |-> Str("KEY"), options |-> options]),
             "name", name),
         "group", group)

LocalRaws ==
  {MergeRaw("p1", nm, "h1", pw, g) :
     nm \in {Undefined, Str(""), Str("n1")},
     pw \in {Undefined, Str(""), Str("pw1")},
     g \in {Undefined, Str("g1")}}

RemoteSyncables ==
  {sanitizeProfile(MergeRaw("p1", nm, "h2", pw, g)) :
     nm \in {Str("n1"), Str("n2")},
     pw \in {Undefined, Str("pw2")},
     g \in {Undefined, Str("g2")}}

\* the p1 profiles a config may hold
P1Variants ==
  {MergeRaw("p1", nm, "h1", pw, Undefined) :
     nm \in {Str(""), Str("n1"), Str("n2")},
     pw \in {Undefined, Str(""), Str("pw1")}}
P2Raw == MergeRaw("p2", Str("n1"), "h1", Str("pw1"), Str("g1"))
P3Raw == MergeRaw("p3", Str("n2"), "h2", Undefined, Undefined)
\* a profile sanitizeProfile rejects: it has no type
UntypedRaw == Obj([id |-> Str("p9"), name |-> Str("n1")])

ProfileLists ==
  {<<>>, <<P3Raw, UntypedRaw>>}
    \cup {<<a>> : a \in P1Variants}
    \cup {<<a, P2Raw>> : a \in P1Variants}

Flavors == {0, 1, 2}
\* the rest of a raw config: groups, vault and settings sections
ConfigRest(flavor) ==
  CASE flavor = 0 -> EmptyObj
    [] flavor = 1 ->
         Obj([groups |-> Arr(<<Obj([id |-> Str("g1"), name |-> Str("G1"),
                                    collapsed |-> Bool("true")])>>),
              vault |-> Obj([iv |-> Str("iv1"), keySalt |-> Str("ks1"),
                             contents |-> Str("c1"), version |-> Num("3")]),
              terminal |-> Obj([fontSize |-> Num("12"),
                                background |-> Str("/home/user/work"),
                                shell |-> Str("zsh")])])
    [] flavor = 2 ->
         Obj([groups |-> Arr(<<Obj([id |-> Str("g1"), name |-> Str("G1x")]),
                               Obj([id |-> Str("g2"), name |-> Str("G2")])>>),
              vault |-> Obj([iv |-> Str("iv2"), keySalt |-> Str("ks2"),
                             contents |-> Str(""), version |-> Num("3")]),
              terminal |-> Obj([fontSize |-> Num("14"),
                                colorScheme |-> Obj([name |-> Str("dark")])]),
              appearance |-> Obj([theme |-> Str("Standard")])])

RawConfig(profiles, flavor) == Put(ConfigRest(flavor), "profiles", Arr(profiles))
RawConfigs == {RawConfig(ps, fl) : ps \in ProfileLists, fl \in Flavors}

NoPlugins == Arr(<<>>)
NoPayload ==
  [version |-> 0, lastUpdated |-> 0, sourceHost |-> "", profiles |-> <<>>,
   groups |-> <<>>, vault |-> Undefined, settings |-> EmptyObj]
NoResult ==
  [mergedPayload |-> NoPayload, conflicts |-> <<>>, addedProfiles |-> <<>>,
   updatedProfiles |-> <<>>, addedGroups |-> <<>>]

MergeProfileInputs ==
  {[op |-> "mergeProfile", localProfile |-> lp, remoteProfile |-> rp,
    localWins |-> lw, local |-> NoPayload, remote |-> NoPayload,
    localConfig |-> EmptyObj] :
     lp \in LocalRaws, rp \in RemoteSyncables, lw \in BOOLEAN}

MergePayloadsInputs ==
  {[op |-> "mergePayloads", localProfile |-> Undefined, remoteProfile |-> Undefined,
    localWins |-> FALSE,
    local |-> createSyncPayload(lc, "hostA", NoPlugins, tl),
    remote |-> createSyncPayload(rc, "hostB", NoPlugins, tr),
    localConfig |-> lc] :
     lc \in RawConfigs, rc \in RawConfigs, tl \in 1..MaxStamp, tr \in 1..MaxStamp}

\* a payload merged with itself
SelfMergeInputs ==
  {[op |-> "mergePayloads", localProfile |-> Undefined, remoteProfile |-> Undefined,
    localWins |-> FALSE,
    local |-> createSyncPayload(lc, "hostA", NoPlugins, tl),
    remote |-> createSyncPayload(lc, "hostA", NoPlugins, tl),
    localConfig |-> lc] :
     lc \in RawConfigs, tl \in 1..MaxStamp}

\* the vault section a raw config may hold: none, one whose contents are
\* empty, and two different ones
VaultChoices ==
  {Undefined,
   Obj([iv |-> Str("iv0"), keySalt |-> Str("ks0"), contents |-> Str(""),
        version |-> Num("3")]),
   Obj([iv |-> Str("iv1"), keySalt |-> Str("ks1"), contents |-> Str("c1"),
        version |-> Num("3")]),
   Obj([iv |-> Str("iv2"), keySalt |-> Str("ks2"), contents |-> Str("c2"),
        version |-> Num("4")])}

\* payloads of two configs that differ in their vault section
VaultMergeInputs ==
  {[op |-> "mergePayloads", localProfile |-> Undefined, remoteProfile |-> Undefined,
    localWins |-> FALSE,
    local |-> createSyncPayload(Put(RawConfig(<<>>, 0), "vault", lv),
                                "hostA", NoPlugins, tl),
    remote |-> createSyncPayload(Put(RawConfig(<<>>, 0), "vault", rv),
                                 "hostB", NoPlugins, tr),
    localConfig |-> Put(RawConfig(<<>>, 0), "vault", lv)] :
     lv \in VaultChoices, rv \in VaultChoices, tl \in 1..MaxStamp, tr \in 1..MaxStamp}

\* raw configs whose settings sections differ in values and in shape:
\* terminal.searchOptions is an object, an object with a nested object, or
\* null (an empty YAML value)
SettingsConfigs ==
  {EmptyObj,
   Obj([terminal |-> Obj([fontSize |-> Num("12"),
                          searchOptions |-> Obj([regex |-> Bool("true"),
                                                 wholeWord |-> Bool("false")])]),
        appearance |-> Obj([theme |-> Str("Standard")])]),
   Obj([terminal |-> Obj([fontSize |-> Num("14"),
                          searchOptions |-> Obj([regex |-> Bool("false")])])]),
   Obj([terminal |-> Obj([cursor |-> Str("block"), searchOptions |-> Null])]),
   Obj([terminal |-> Obj([fontSize |-> Num("12"),
                          searchOptions |-> Obj([regex |-> Obj([flags |-> Str("i")])])]),
        hotkeys |-> Obj([copy |-> Arr(<<Str("Ctrl-C")>>)])])}

MergeSettingsInputs ==
  {[op |-> "mergeSettings", localProfile |-> Undefined, remoteProfile |-> Undefined,
    localWins |-> FALSE,
    local |-> [NoPayload EXCEPT !.settings = sanitizeSettings(lc)],
    remote |-> [NoPayload EXCEPT !.settings = sanitizeSettings(rc)],
    localConfig |-> lc] :
     lc \in SettingsConfigs, rc \in SettingsConfigs}

G1 == Obj([id |-> Str("g1"), name |-> Str("G1"), collapsed |-> Bool("true")])
GroupLists ==
  {<<>>,
   <<G1>>,
   <<Obj([id |-> Str("g1"), name |-> Str("G1x")]),
     Obj([id |-> Str("g2"), name |-> Str("G2")])>>,
   <<Obj([id |-> Str("g3"), name |-> Str("G3"), collapsed |-> Bool("false")]),
     Put(G1, "collapsed", Bool("false")),
     Obj([id |-> Str("g2"), name |-> Str("G2x")])>>}

MergeGroupsInputs ==
  {[op |-> "mergeGroups", localProfile |-> Undefined, remoteProfile |-> Undefined,
    localWins |-> FALSE,
    local |-> [NoPayload EXCEPT !.groups = lg],
    remote |-> [NoPayload EXCEPT !.groups = rg],
    localConfig |-> EmptyObj] :
     lg \in GroupLists, rg \in GroupLists}

\* raw configs that hold what the sync never carries: private keys and a
\* stray field in a profile, keys outside the field lists in every section
\* (one of them nested in terminal.searchOptions), and the plugin's own section
A1Raw == RawProfile(Str("p1"), Str("ssh"), "top", Str("v"))
LocalSections ==
  Obj([terminal |-> Obj([fontSize |-> Num("12"), shell |-> Str("zsh"),
                         searchOptions |-> Obj([regex |-> Bool("true"),
                                                wholeWord |-> Bool("false")])]),
       appearance |-> Obj([theme |-> Str("Paper"), tabsLocation |-> Str("left")]),
       ssh |-> Obj([warnOnClose |-> Bool("true"), agentPath |-> Str("/run/agent")]),
       application |-> Obj([language |-> Str("en"), defaultProfile |-> Str("p1")]),
       window |-> Obj([confirmClose |-> Bool("true"), bounds |-> Str("800x600")]),
       gdrivesync |-> Obj([enabled |-> Bool("true")])])
ApplyOriginals ==
  {Put(rest, "profiles", Arr(ps)) :
     rest \in {LocalSections, Put(ConfigRest(1), "gdrivesync", Str("on"))},
     ps \in {<<A1Raw>>, <<A1Raw, P2Raw>>, <<P2Raw, UntypedRaw, A1Raw>>}}

\* the settings of another machine, every section present
RemoteSections ==
  Obj([terminal |-> Obj([fontSize |-> Num("14"),
                         searchOptions |-> Obj([regex |-> Bool("false")])]),
       appearance |-> Obj([theme |-> Str("Standard")]),
       ssh |-> Obj([warnOnClose |-> Bool("false")]),
       application |-> Obj([language |-> Str("fr")]),
       window |-> Obj([confirmClose |-> Bool("false")])])
ApplyRemotes ==
  RawConfigs \cup {Put(RemoteSections, "profiles", Arr(ps)) : ps \in ProfileLists}

\* applyPayloadToConfig is called with the payload mergePayloads returned
\* (syncFromRemote) or with the downloaded payload itself
\* (restoreRemoteVersion); the payload travels in the remote field
ApplyInputs ==
  {[op |-> "applyPayloadToConfig", localProfile |-> Undefined,
    remoteProfile |-> Undefined, localWins |-> FALSE,
    local |-> createSyncPayload(lc, "hostA", NoPlugins, 1),
    remote |-> IF viaMerge
               THEN mergePayloads(createSyncPayload(lc, "hostA", NoPlugins, 1),
                                  createSyncPayload(rc, "hostB", NoPlugins, 2),
                                  lc, 1).mergedPayload
               ELSE createSyncPayload(rc, "hostB", NoPlugins, 2),
    localConfig |-> lc] :
     lc \in ApplyOriginals, rc \in ApplyRemotes, viaMerge \in BOOLEAN}

\* raw configs a hand-edited config.yaml may hold: two profiles under one
\* id, two groups under one id
P1Twin == MergeRaw("p1", Str("n2"), "h2", Undefined, Undefined)
TwinConfigs ==
  {Put(RawConfig(ps, 0), "groups", Arr(gs)) :
     ps \in {<<MergeRaw("p1", Str("n1"), "h1", Str("pw1"), Undefined), P1Twin>>,
             <<P1Twin, P2Raw, MergeRaw("p1", Str("n1"), "h1", Str("pw1"), Undefined)>>,
             <<P1Twin, P2Raw>>},
     gs \in {<<G1>>, <<G1, Obj([id |-> Str("g1"), name |-> Str("G1x")])>>}}

TwinInputs ==
  {[op |-> "mergePayloads", localProfile |-> Undefined, remoteProfile |-> Undefined,
    localWins |-> FALSE,
    local |-> createSyncPayload(lc, "hostA", NoPlugins, tl),
    remote |-> createSyncPayload(rc, "hostB", NoPlugins, 2),
    localConfig |-> lc] :
     lc \in TwinConfigs, rc \in TwinConfigs, tl \in 1..MaxStamp}

MOutPending == [done |-> FALSE, merged |-> Pending, result |-> NoResult]

InitMerge ==
  /\ mIn \in MergeProfileInputs \cup MergePayloadsInputs \cup SelfMergeInputs
              \cup VaultMergeInputs \cup MergeSettingsInputs \cup MergeGroupsInputs
              \cup ApplyInputs \cup TwinInputs
  /\ mOut = MOutPending
  /\ SanParked /\ SysParked /\ FleetParked /\ TimedParked /\ PureParked

CallMergeProfile ==
  /\ mIn.op = "mergeProfile" /\ ~mOut.done
  /\ mOut' = [done |-> TRUE,
              merged |-> mergeProfile(mIn.localProfile, mIn.remoteProfile, mIn.localWins),
              result |-> NoResult]
  /\ UNCHANGED <<mIn, sanVars, sysVars, pureVars, fleet, timedVars>>

CallMergePayloads ==
  /\ mIn.op = "mergePayloads" /\ ~mOut.done
  /\ mOut' = [done |-> TRUE, merged |-> Pending,
              result |-> mergePayloads(mIn.local, mIn.remote, mIn.localConfig,
                                       mIn.local.lastUpdated)]
  /\ UNCHANGED <<mIn, sanVars, sysVars, pureVars, fleet, timedVars>>

CallMergeSettings ==
  /\ mIn.op = "mergeSettings" /\ ~mOut.done
  /\ mOut' = [done |-> TRUE,
              merged |-> mergeSettings(mIn.local.settings, mIn.remote.settings),
              result |-> NoResult]
  /\ UNCHANGED <<mIn, sanVars, sysVars, pureVars, fleet, timedVars>>

CallMergeGroups ==
  /\ mIn.op = "mergeGroups" /\ ~mOut.done
  /\ mOut' = LET r == mergeGroups(mIn.local.groups, mIn.remote.groups)
             IN [done |-> TRUE, merged |-> Pending,
                 result |-> [NoResult EXCEPT !.mergedPayload.groups = r.merged,
                                             !.addedGroups = r.added]]
  /\ UNCHANGED <<mIn, sanVars, sysVars, pureVars, fleet, timedVars>>

CallApplyPayloadToConfig ==
  /\ mIn.op = "applyPayloadToConfig" /\ ~mOut.done
  /\ mOut' = [done |-> TRUE,
              merged |-> applyPayloadToConfig(mIn.localConfig, mIn.remote),
              result |-> NoResult]
  /\ UNCHANGED <<mIn, sanVars, sysVars, pureVars, fleet, timedVars>>

NextMerge ==
  \/ CallMergeProfile
  \/ CallMergePayloads
  \/ CallMergeSettings
  \/ CallMergeGroups
  \/ CallApplyPayloadToConfig
SpecMerge == InitMerge /\ [][NextMerge]_vars

\* ---- mergeProfile
MergedProfileCase ==
  /\ mOut.done /\ mIn.op = "mergeProfile"
  /\ Get(mIn.localProfile, "privateKey") # Undefined
  /\ Get(mIn.localProfile, "id") = Get(mIn.remoteProfile, "id")
  /\ Get(mIn.localProfile, "name") # Get(mIn.remoteProfile, "name")

KeysPreserved ==
  /\ Get(mOut.merged, "privateKey") = Get(mIn.localProfile, "privateKey")
  /\ Get(Get(mOut.merged, "options"), "privateKeys")
       = Get(Get(mIn.localProfile, "options"), "privateKeys")

\* C6 as stated: whatever localWins is, the merged profile keeps the local
\* private key and takes the remote name.
C6_Original ==
  MergedProfileCase
    => /\ KeysPreserved
       /\ Get(mOut.merged, "name") = Get(mIn.remoteProfile, "name")

\* C6 amended: the merged profile keeps the local private-key values
\* unchanged whatever localWins is; its name is the remote name when
\* localWins is false or the local profile has no name, and stays the local
\* name when localWins is true and the local profile defines one.
C6_SecretPreservation ==
  MergedProfileCase
    => /\ KeysPreserved
       /\ Get(mOut.merged, "name") =
            (IF mIn.localWins /\ Get(mIn.localProfile, "name") # Undefined
             THEN Get(mIn.localProfile, "name")
             ELSE Get(mIn.remoteProfile, "name"))

C6_Witness ==
  /\ MergedProfileCase
  /\ ~mIn.localWins
  /\ Get(mIn.localProfile, "name") = Str("n1")
  /\ Get(mOut.merged, "name") = Str("n2")
  /\ Get(mOut.merged, "privateKey") = Str("KEY")

\* ---- mergePayloads
MergedPayloadsCase == mOut.done /\ mIn.op = "mergePayloads"

\* the raw profile of localConfig behind local payload profile lp
RawOf(lp) ==
  LastById(Filter(Elems(Get(mIn.localConfig, "profiles")),
                  LAMBDA p : IsObject(p) /\ "id" \in Keys(p)),
           Get(lp, "id"))
RemoteOf(lp) == FindById(mIn.remote.profiles, Get(lp, "id"))

ConflictRecorded(lp) ==
  \E j \in DOMAIN mOut.result.conflicts :
     /\ mOut.result.conflicts[j].profileId = Get(lp, "id")
     /\ mOut.result.conflicts[j].resolution =
          (IF mIn.local.lastUpdated >= mIn.remote.lastUpdated THEN "local" ELSE "remote")

\* the value the merge must leave in option field f of a profile on both
\* sides when local wins; Exceptions names the fields allowed to differ
LocalKept(i, passwordBootstrap) ==
  LET lp == mIn.local.profiles[i]
      raw == RawOf(lp)
      rp == RemoteOf(lp)
      mp == mOut.result.mergedPayload.profiles[i]
  IN /\ \A fld \in syncableFields :
          Get(raw, fld) # Undefined => Get(mp, fld) = Get(raw, fld)
     /\ \A fld \in safeOptionFields :
          Get(Get(raw, "options"), fld) # Undefined =>
            Get(Get(mp, "options"), fld) =
              (IF /\ passwordBootstrap
                  /\ fld = "password"
                  /\ ~Truthy(Get(Get(raw, "options"), fld))
                  /\ Get(Get(rp, "options"), fld) # Undefined
               THEN Get(Get(rp, "options"), fld)
               ELSE Get(Get(raw, "options"), fld))

ConflictsAsClaimed ==
  /\ \A i \in DOMAIN mIn.local.profiles :
       LET lp == mIn.local.profiles[i]
       IN (Truthy(RemoteOf(lp)) /\ lp # RemoteOf(lp)) => ConflictRecorded(lp)
  /\ \A j \in DOMAIN mOut.result.conflicts :
       mOut.result.conflicts[j].resolution =
         (IF mIn.local.lastUpdated < mIn.remote.lastUpdated THEN "remote" ELSE "local")

C10_Original ==
  (MergedPayloadsCase /\ mIn.local = mIn.remote)
    => /\ mOut.result.conflicts = <<>>
       /\ mOut.result.mergedPayload.profiles = mIn.local.profiles

ProfileIds(payload) == {Get(payload.profiles[i], "id") : i \in DOMAIN payload.profiles}

\* C11: when the local and the remote payload share no profile id, the merged
\* profile list is as long as both inputs together, and conflicts and
\* updatedProfiles are empty.
C11_DisjointIdsMergeToSum ==
  (MergedPayloadsCase /\ ProfileIds(mIn.local) \cap ProfileIds(mIn.remote) = {})
    => /\ Len(mOut.result.mergedPayload.profiles)
            = Len(mIn.local.profiles) + Len(mIn.remote.profiles)
       /\ mOut.result.conflicts = <<>>
       /\ mOut.result.updatedProfiles = <<>>

\* disjoint and both non-empty: local holds p3, remote holds p1 and p2
C11_Witness ==
  /\ MergedPayloadsCase
  /\ ProfileIds(mIn.local) = {Str("p3")}
  /\ ProfileIds(mIn.remote) = {Str("p1"), Str("p2")}
  /\ Len(mOut.result.mergedPayload.profiles) = 3

\* the remote profiles whose id no local profile has, in remote order
RemoteOnly ==
  SelectSeq(mIn.remote.profiles,
            LAMBDA rp : \A i \in DOMAIN mIn.local.profiles :
                           Get(mIn.local.profiles[i], "id") # Get(rp, "id"))

\* C12: addedProfiles lists, in remote order, exactly the ids of the remote
\* profiles whose id no local profile has; those profiles are the tail of
\* the merged list, after one entry per local profile; when the local payload
\* has no profile, every remote profile is added and there is no conflict.
C12_RemoteOnlyProfilesAppended ==
  MergedPayloadsCase
    => LET merged == mOut.result.mergedPayload.profiles
           n == Len(mIn.local.profiles)
       IN /\ mOut.result.addedProfiles
               = [i \in DOMAIN RemoteOnly |-> Get(RemoteOnly[i], "id")]
          /\ Len(merged) = n + Len(RemoteOnly)
          /\ \A i \in 1..n : Get(merged[i], "id") = Get(mIn.local.profiles[i], "id")
          /\ \A i \in DOMAIN RemoteOnly : merged[n + i] = RemoteOnly[i]
          /\ n = 0 => /\ Len(mOut.result.addedProfiles) = Len(mIn.remote.profiles)
                      /\ merged = mIn.remote.profiles
                      /\ mOut.result.conflicts = <<>>

\* local holds p1, remote holds p1 and p2: only p2 is added, after p1
C12_Witness ==
  /\ MergedPayloadsCase
  /\ ProfileIds(mIn.local) = {Str("p1")}
  /\ ProfileIds(mIn.remote) = {Str("p1"), Str("p2")}
  /\ mOut.result.addedProfiles = <<Str("p2")>>
  /\ mOut.result.updatedProfiles = <<Str("p1")>>
  /\ Get(mOut.result.mergedPayload.profiles[2], "id") = Str("p2")

\* C13: with localWins = true, a local profile whose options.password is
\* empty or absent, and a remote profile that defines options.password, the
\* merged options.password is the remote value.
C13_PasswordBootstrap ==
  (/\ mOut.done /\ mIn.op = "mergeProfile"
   /\ mIn.localWins
   /\ ~Truthy(Get(Get(mIn.localProfile, "options"), "password"))
   /\ Get(Get(mIn.remoteProfile, "options"), "password") # Undefined)
    => Get(Get(mOut.merged, "options"), "password")
         = Get(Get(mIn.remoteProfile, "options"), "password")

\* local wins, the local password is the empty string, the remote one is set
C13_Witness ==
  /\ mOut.done /\ mIn.op = "mergeProfile"
  /\ mIn.localWins
  /\ Get(Get(mIn.localProfile, "options"), "password") = Str("")
  /\ Get(Get(mIn.remoteProfile, "options"), "password") = Str("pw2")
  /\ Get(Get(mOut.merged, "options"), "password") = Str("pw2")
  /\ Get(Get(mOut.merged, "options"), "host") = Str("h1")

\* mergeProfile was called with localWins = false
RemoteWinsCase == mOut.done /\ mIn.op = "mergeProfile" /\ ~mIn.localWins

\* the merged profile holds the remote value of every top-level field the
\* remote profile defines and of every option in fields that it defines
TakesRemote(fields) ==
  /\ \A f \in syncableFields :
       Get(mIn.remoteProfile, f) # Undefined
         => Get(mOut.merged, f) = Get(mIn.remoteProfile, f)
  /\ \A f \in fields :
       Get(Get(mIn.remoteProfile, "options"), f) # Undefined
         => Get(Get(mOut.merged, "options"), f)
              = Get(Get(mIn.remoteProfile, "options"), f)

\* C29 as stated: with localWins = false the merged profile holds the remote
\* value of every syncable top-level field and of every allow-listed option,
\* password included, that the remote profile defines, whatever the local
\* profile holds there.
C29_Original ==
  RemoteWinsCase => TakesRemote(safeOptionFields)

\* C29, amended: the same for every field but options.password, which is
\* the remote one only when the local password is empty or absent; a
\* non-empty local password is kept.
C29_RemoteWinsButForPassword ==
  RemoteWinsCase =>
    /\ TakesRemote(safeOptionFields \ {"password"})
    /\ Get(Get(mIn.remoteProfile, "options"), "password") # Undefined
         => Get(Get(mOut.merged, "options"), "password")
              = (IF Truthy(Get(Get(mIn.localProfile, "options"), "password"))
                 THEN Get(Get(mIn.localProfile, "options"), "password")
                 ELSE Get(Get(mIn.remoteProfile, "options"), "password"))

\* the local profile held a name, a group, a host and a password of its own;
\* the merge took the remote name, group and host and kept the password
C29_Witness ==
  /\ RemoteWinsCase
  /\ Get(mIn.localProfile, "name") = Str("n1")
  /\ Get(mIn.localProfile, "group") = Str("g1")
  /\ Get(Get(mIn.localProfile, "options"), "password") = Str("pw1")
  /\ Get(Get(mIn.remoteProfile, "options"), "password") = Str("pw2")
  /\ Get(mOut.merged, "name") = Str("n2")
  /\ Get(mOut.merged, "group") = Str("g2")
  /\ Get(Get(mOut.merged, "options"), "host") = Str("h2")
  /\ Get(Get(mOut.merged, "options"), "password") = Str("pw1")

\* the four fields of a payload's vault
VaultOf(v) ==
  Obj([k \in {x \in {"iv", "keySalt", "contents", "version"} : Get(v, x) # Undefined} |->
         Get(v, k)])
HasContents(v) == Truthy(v) /\ Truthy(Get(v, "contents"))

\* C14: whatever the timestamps are, the merged vault is local's vault when
\* that has contents, else remote's vault when that has contents, else
\* absent; it never holds fields of both sides.
C14_VaultPrecedence ==
  MergedPayloadsCase
    => LET localVault == mIn.local.vault
           remoteVault == mIn.remote.vault
           mergedVault == mOut.result.mergedPayload.vault
       IN /\ HasContents(localVault) => mergedVault = VaultOf(localVault)
          /\ (~HasContents(localVault) /\ HasContents(remoteVault))
               => mergedVault = VaultOf(remoteVault)
          /\ (~HasContents(localVault) /\ ~HasContents(remoteVault))
               => mergedVault = Undefined

\* both sides hold a vault, the remote payload is the newer one, and the
\* merged vault is local's
C14_Witness ==
  /\ MergedPayloadsCase
  /\ mIn.local.lastUpdated < mIn.remote.lastUpdated
  /\ Get(mIn.local.vault, "contents") = Str("c1")
  /\ Get(mIn.remote.vault, "contents") = Str("c2")
  /\ Get(mOut.result.mergedPayload.vault, "iv") = Str("iv1")

\* the paths (sequences of keys) that lead to a value that is not a plain
\* object: a scalar, null or an array
RECURSIVE LeafPaths(_)
LeafPaths(v) ==
  IF v.t # "o" THEN {<<>>}
  ELSE UNION {{<<k>> \o q : q \in LeafPaths(v.f[k])} : k \in DOMAIN v.f}

\* the value at a path, Undefined when the path leaves the value
RECURSIVE At(_, _)
At(v, path) == IF path = <<>> THEN v ELSE At(Get(v, Head(path)), Tail(path))

\* remote holds a scalar, null or an array at a proper prefix of the path
RemoteLeafAbove(path) ==
  \E n \in 0..(Len(path) - 1) :
     LET above == At(mIn.remote.settings, SubSeq(path, 1, n))
     IN above # Undefined /\ above.t # "o"

MergedSettingsCase == mOut.done /\ mIn.op = "mergeSettings"

FreshGroups ==
  SelectSeq(mIn.remote.groups,
            LAMBDA g : \A i \in DOMAIN mIn.local.groups :
                          Get(mIn.local.groups[i], "id") # Get(g, "id"))

\* C16: mergeGroups returns the local groups unchanged and in order, then
\* each remote group whose id no local group has; added lists the ids of the
\* appended groups; a group on both sides keeps its local name and collapsed
\* flag.
C16_GroupsLocalFirst ==
  (mOut.done /\ mIn.op = "mergeGroups")
    => /\ mOut.result.mergedPayload.groups = mIn.local.groups \o FreshGroups
       /\ mOut.result.addedGroups = [i \in DOMAIN FreshGroups |-> Get(FreshGroups[i], "id")]
       /\ \A i \in DOMAIN mIn.local.groups :
            /\ Get(mOut.result.mergedPayload.groups[i], "name")
                 = Get(mIn.local.groups[i], "name")
            /\ Get(mOut.result.mergedPayload.groups[i], "collapsed")
                 = Get(mIn.local.groups[i], "collapsed")

\* g1 is on both sides under different names and flags, g2 and g3 only on
\* the remote side: g1 stays as it is locally, g3 and g2 are appended
C16_Witness ==
  /\ mOut.done /\ mIn.op = "mergeGroups"
  /\ mIn.local.groups = <<G1>>
  /\ Len(mIn.remote.groups) = 3
  /\ mOut.result.mergedPayload.groups[1] = G1
  /\ mOut.result.addedGroups = <<Str("g3"), Str("g2")>>

\* ---- distinct ids
\* no two entries of the list q have the same id
Distinct(q) ==
  \A i \in DOMAIN q : \A j \in DOMAIN q : Get(q[i], "id") = Get(q[j], "id") => i = j

\* C37 as stated: the payload createSyncPayload made of the local config and
\* the payload mergePayloads returns hold no two profiles with one id and
\* no two groups with one id.
C37_Original ==
  MergedPayloadsCase =>
    /\ Distinct(mIn.local.profiles) /\ Distinct(mIn.local.groups)
    /\ Distinct(mOut.result.mergedPayload.profiles)
    /\ Distinct(mOut.result.mergedPayload.groups)

\* C37, amended: distinct ids are kept, not made.  createSyncPayload's
\* profiles (groups) have pairwise distinct ids when the raw config's
\* profiles (groups) have, and mergePayloads' profiles (groups) have
\* pairwise distinct ids when those of the local payload and those of the
\* remote payload have.
C37_DistinctIdsKept ==
  MergedPayloadsCase =>
    /\ Distinct(Elems(Get(mIn.localConfig, "profiles"))) => Distinct(mIn.local.profiles)
    /\ Distinct(Elems(Get(mIn.localConfig, "groups"))) => Distinct(mIn.local.groups)
    /\ (Distinct(mIn.local.profiles) /\ Distinct(mIn.remote.profiles))
         => Distinct(mOut.result.mergedPayload.profiles)
    /\ (Distinct(mIn.local.groups) /\ Distinct(mIn.remote.groups))
         => Distinct(mOut.result.mergedPayload.groups)

\* payloads with distinct ids that share a profile and a group, the local
\* side holding a profile of its own and the remote side a group of its
\* own, have been merged
C37_Witness ==
  /\ MergedPayloadsCase
  /\ Distinct(Elems(Get(mIn.localConfig, "profiles")))
  /\ Distinct(mIn.local.profiles) /\ Distinct(mIn.remote.profiles)
  /\ Distinct(mIn.local.groups) /\ Distinct(mIn.remote.groups)
  /\ IdsOf(mIn.local.profiles) \cap IdsOf(mIn.remote.profiles) # {}
  /\ IdsOf(mIn.local.profiles) \ IdsOf(mIn.remote.profiles) # {}
  /\ IdsOf(mIn.local.groups) \cap IdsOf(mIn.remote.groups) # {}
  /\ IdsOf(mIn.remote.groups) \ IdsOf(mIn.local.groups) # {}
  /\ Len(mOut.result.mergedPayload.profiles) >= 2
  /\ Len(mOut.result.mergedPayload.groups) >= 2

\* ---- applyPayloadToConfig
AppliedCase == mOut.done /\ mIn.op = "applyPayloadToConfig"
DeepMergedSections == {"terminal", "appearance", "ssh", "application", "window"}
WrittenKeys ==
  {"profiles", "groups", "vault", "hotkeys", "colorSchemes", "pluginBlacklist"}
    \cup DeepMergedSections

\* every key of raw that source lacks holds in out what it held in raw, at
\* every depth where raw and source are both objects
RECURSIVE AbsentKeysKept(_, _, _)
AbsentKeysKept(raw, source, out) ==
  \A k \in Keys(raw) :
     IF k \notin Keys(source) THEN Get(out, k) = Get(raw, k)
     ELSE (Get(raw, k).t = "o" /\ Get(source, k).t = "o")
            => AbsentKeysKept(Get(raw, k), Get(source, k), Get(out, k))

\* the raw profile's fields outside syncableFields and, inside options,
\* outside safeOptionFields are in out as they were in raw
ProfileFrameKept(raw, out) ==
  /\ \A k \in Keys(raw) \ (syncableFields \cup {"options"}) : Get(out, k) = Get(raw, k)
  /\ \A k \in Keys(Get(raw, "options")) \ safeOptionFields :
       Get(Get(out, "options"), k) = Get(Get(raw, "options"), k)

MAX_RETRIES == 3
MaxTime == 2
MaxEvents == 2

Tasks     == {"auto", "ui"}
LocalHost == "hostA"
OtherHost == "hostB"
Password  == "pw"

\* the Drive blob: nothing, text that is not JSON, or an encrypted payload
NoFile == [kind |-> "none", key |-> "", payload |-> NoPayload]

\* JSON.stringify(payload) as encryptObject and decryptObject apply it
StringifyPayload(p) ==
  [p EXCEPT !.profiles = [i \in DOMAIN p.profiles |-> JsonClone(p.profiles[i])],
            !.groups = [i \in DOMAIN p.groups |-> JsonClone(p.groups[i])],
            !.vault = JsonClone(p.vault),
            !.settings = JsonClone(p.settings)]

\* CryptoService: the ciphertext opens under the password it was made with
encryptObject(obj, password) ==
  [kind |-> "enc", key |-> password, payload |-> StringifyPayload(obj)]
\* NoPayload stands for null
decryptObject(encryptedData, password) ==
  IF encryptedData.kind = "enc" /\ encryptedData.key = password
  THEN encryptedData.payload ELSE NoPayload

\* the { commands, groups } object both quick-cmds helpers build
QuickCmdsOf(q) ==
  Obj([k \in {"commands", "groups"} |->
         IF Get(q, k).t = "a" /\ Truthy(Get(q, k)) THEN Get(q, k) ELSE Arr(<<>>)])

\* rawConfig['quick-cmds'] = getQuickCommands() when the file has the section
getQuickCommands(config) ==
  IF IsSection(config, "quick-cmds")
  THEN Put(config, "quick-cmds", QuickCmdsOf(Get(config, "quick-cmds")))
  ELSE config

\* the config after applyQuickCommands wrote the remote quick-cmds to it
applyQuickCommands(config, remoteQuickCmds) ==
  Put(config, "quick-cmds",
      Obj([k \in {"commands", "groups"} |->
             IF Truthy(Get(remoteQuickCmds, k)) THEN Get(remoteQuickCmds, k)
             ELSE Arr(<<>>)]))

\* what syncToRemote encrypts: the sanitized payload of the current config
UploadPayload(config, hostname, time) ==
  createSyncPayload(getQuickCommands(config), hostname, NoPlugins, time)

\* syncFromRemote from the quick-cmds write to applyPayloadToConfig
MergeIntoLocal(config, remotePayload, hostname, time) ==
  LET q == Get(remotePayload.settings, "quickCmds")
      rawConfig == IF Truthy(q) THEN applyQuickCommands(config, q) ELSE config
      localPayload == createSyncPayload(rawConfig, hostname, Undefined, time)
      mergeResult == mergePayloads(localPayload, remotePayload, rawConfig, time)
  IN [rawConfig |-> rawConfig,
      localPayload |-> localPayload,
      mergeResult |-> mergeResult,
      updatedConfig |-> applyPayloadToConfig(rawConfig, mergeResult.mergedPayload)]

\* restoreRemoteVersion from the forced timestamp to applyPayloadToConfig
RestoreIntoLocal(config, payload, time) ==
  LET forced == [payload EXCEPT !.lastUpdated = time + 10000]
      q == Get(forced.settings, "quickCmds")
      rawConfig == IF Truthy(q) THEN applyQuickCommands(config, q) ELSE config
  IN [rawConfig |-> rawConfig,
      updatedConfig |-> applyPayloadToConfig(rawConfig, forced)]

\* why syncFromRemote throws before the merge ("" when it does not)
DownloadError(encryptedJson, password) ==
  LET remotePayload == decryptObject(encryptedJson, password)
  IN CASE encryptedJson.kind = "garbage" ->
            "Remote sync file is corrupted (invalid JSON)"
       [] remotePayload = NoPayload ->
            "Failed to decrypt remote data - wrong password or corrupted data"
       [] remotePayload.version = 0 \/ remotePayload.lastUpdated = 0 ->
            "Remote sync file has invalid structure"
       [] OTHER -> ""

\* ---- the machine's configuration and what its user does to it
InitialConfig ==
  RawConfig(<<MergeRaw("p1", Str("n1"), "h1", Str("pw1"), Undefined), P2Raw>>, 1)

SetName(q, id, nm) ==
  [i \in DOMAIN q |->
     IF Get(q[i], "id") = Str(id) THEN Put(q[i], "name", Str(nm)) ELSE q[i]]

\* the configs one edit in the profile editor away: p1 renamed, p2 deleted
\* or created again
Edited(config) ==
  LET ps == Elems(Get(config, "profiles"))
      hasP2 == Str("p2") \in IdsOf(ps)
  IN ({Put(config, "profiles", Arr(SetName(ps, "p1", nm))) : nm \in {"n1", "n2"}}
        \cup {Put(config, "profiles",
                  Arr(IF hasP2
                      THEN Filter(ps, LAMBDA p : Get(p, "id") # Str("p2"))
                      ELSE ps \o <<P2Raw>>))})
       \ {config}

\* ---- the other machine: what it may have left in the blob
OtherConfig ==
  Put(RawConfig(<<MergeRaw("p1", Str("n3"), "h2", Str("pw2"), Str("g2")), P3Raw>>, 2),
      "quick-cmds", Obj([commands |-> Arr(<<Obj([name |-> Str("ls")])>>)]))

OtherFiles ==
  {encryptObject(UploadPayload(OtherConfig, OtherHost, ts), Password) :
     ts \in {1, MaxTime + 1}}
    \cup {encryptObject(UploadPayload(OtherConfig, OtherHost, 1), "other"),
          encryptObject([UploadPayload(OtherConfig, OtherHost, 1) EXCEPT !.version = 0],
                        Password),
          [kind |-> "garbage", key |-> "", payload |-> NoPayload]}

\* ---- calls
NoTask ==
  [op |-> "none", pc |-> "idle", attempt |-> 0, content |-> NoFile,
   ok |-> FALSE, action |-> "none", wrote |-> FALSE, error |-> ""]

NoPluginConfig == [lastSyncTime |-> 0, lastSyncError |-> "", lastSyncHost |-> ""]

\* positions past the precondition checks and before the call settles
InFlight == {"uploading", "savingTo", "savingErrTo", "downloading", "writing",
             "savingFrom", "savingErrFrom", "fetching", "restoring",
             "savingRestore"}

\* changed$ -> filter(!isApplyingRemote) -> debounceTime: the waiting events
\* after one of kind cause was emitted while the guard was `applying`
Debounced(waiting, cause, applying) ==
  IF watching /\ ~applying THEN waiting \cup {cause} ELSE waiting

CanStart_unchecked == TRUE

\* the checks syncToRemote and syncFromRemote open with
CanStart == masterPassword # "null" /\ connected

\* the error of the result those checks return
PreconditionError ==
  IF masterPassword = "null" THEN "Master password not set"
  ELSE "Not connected to Google Drive"

\* the call has settled with this result
Finished(tk, ok, action) ==
  [tk EXCEPT !.pc = "done", !.attempt = 0, !.content = NoFile,
             !.ok = ok, !.action = action]

\* syncToRemote up to its first await on the network
StartedTo(tk) ==
  IF CanStart
  THEN [tk EXCEPT !.pc = "uploading", !.attempt = 0,
                  !.content = encryptObject(UploadPayload(cfg, LocalHost, now),
                                            masterPassword)]
  ELSE Finished([tk EXCEPT !.error = PreconditionError], FALSE, "none")

\* syncFromRemote up to its first await on the network
StartedFrom(tk) ==
  IF CanStart THEN [tk EXCEPT !.pc = "downloading", !.attempt = 0]
  ELSE Finished([tk EXCEPT !.error = PreconditionError], FALSE, "none")

\* syncFromRemote returned: fullSync returns that result when it is a
\* failure that carries an error message, and goes on to syncToRemote
\* otherwise
EndFrom(tk, ok, action) ==
  IF tk.op = "fullSync" /\ ~(~ok /\ tk.error # "")
  THEN StartedTo(tk) ELSE Finished(tk, ok, action)
StatusEndFrom(tk, ok, st) ==
  IF tk.op = "fullSync" /\ ~(~ok /\ tk.error # "") /\ CanStart
  THEN "syncing" ELSE st

\* savePluginConfig's Object.assign, before its config.save() is awaited
Synced(pc, time, host) ==
  [pc EXCEPT !.lastSyncTime = time, !.lastSyncError = "", !.lastSyncHost = host]

InitSys ==
  /\ cfg = InitialConfig
  /\ plugin = NoPluginConfig
  /\ driveFile = NoFile
  /\ masterPassword = Password
  /\ connected = TRUE
  /\ isApplyingRemote = FALSE
  /\ watching = TRUE
  /\ status = "idle"
  /\ timer = {}
  /\ task = [t \in Tasks |-> NoTask]
  /\ faults = {}
  /\ now = 1
  /\ events = 0

Init ==
  /\ InitSys
  /\ SanParked /\ MergeParked /\ FleetParked /\ TimedParked /\ PureParked

others == <<sanVars, mergeVars, fleet, timedVars, pureVars>>

\* ---- the environment
\* the user edits a profile; Tabby saves the config and emits changed$
UserEdit ==
  /\ events < MaxEvents
  /\ events' = events + 1
  /\ \E c \in Edited(cfg) : cfg' = c
  /\ timer' = Debounced(timer, "user", isApplyingRemote)
  /\ UNCHANGED <<plugin, driveFile, masterPassword, connected, isApplyingRemote,
                 watching, status, task, faults, now, others>>

Tick ==
  /\ events < MaxEvents
  /\ events' = events + 1
  /\ now < MaxTime
  /\ now' = now + 1
  /\ UNCHANGED <<cfg, plugin, driveFile, masterPassword, connected,
                 isApplyingRemote, watching, status, timer, task, faults, others>>

\* the network ("drive") or the config store ("config") starts or stops failing
FaultBegins ==
  /\ events < MaxEvents
  /\ events' = events + 1
  /\ \E x \in {"drive", "config"} \ faults : faults' = faults \cup {x}
  /\ UNCHANGED <<cfg, plugin, driveFile, masterPassword, connected,
                 isApplyingRemote, watching, status, timer, task, now, others>>
FaultEnds ==
  /\ events < MaxEvents
  /\ events' = events + 1
  /\ \E x \in faults : faults' = faults \ {x}
  /\ UNCHANGED <<cfg, plugin, driveFile, masterPassword, connected,
                 isApplyingRemote, watching, status, timer, task, now, others>>

\* the network starts failing with rejections that carry no message (an
\* Error built without one, or a value that is not an Error)
BareFaultBegins ==
  /\ events < MaxEvents
  /\ events' = events + 1
  /\ "drive" \notin faults
  /\ faults' = faults \cup {"drive", "bare"}
  /\ UNCHANGED <<cfg, plugin, driveFile, masterPassword, connected,
                 isApplyingRemote, watching, status, timer, task, now, others>>

\* another machine replaces the blob
OtherMachineUploads ==
  /\ events < MaxEvents
  /\ events' = events + 1
  /\ \E file \in OtherFiles \ {driveFile} : driveFile' = file
  /\ UNCHANGED <<cfg, plugin, masterPassword, connected, isApplyingRemote,
                 watching, status, timer, task, faults, now, others>>

clearPassword ==
  /\ events < MaxEvents
  /\ events' = events + 1
  /\ masterPassword # "null"
  /\ masterPassword' = "null"
  /\ UNCHANGED <<cfg, plugin, driveFile, connected, isApplyingRemote, watching,
                 status, timer, task, faults, now, others>>

\* the stored hash admits the configured password only
setMasterPassword ==
  /\ events < MaxEvents
  /\ events' = events + 1
  /\ masterPassword = "null"
  /\ masterPassword' = Password
  /\ UNCHANGED <<cfg, plugin, driveFile, connected, isApplyingRemote, watching,
                 status, timer, task, faults, now, others>>

\* SettingsComponent.disconnectGoogleDrive: drive.disconnect, setEnabled(false)
disconnectGoogleDrive ==
  /\ events < MaxEvents
  /\ events' = events + 1
  /\ connected /\ "config" \notin faults
  /\ connected' = FALSE
  /\ watching' = FALSE
  /\ timer' = {}
  /\ status' = "disabled"
  /\ UNCHANGED <<cfg, plugin, driveFile, masterPassword, isApplyingRemote, task,
                 faults, now, others>>

\* SettingsComponent.connectGoogleDrive: authorize, setEnabled(true),
\* useDefaultPassword, then fullSync() without awaiting it
connectGoogleDrive ==
  /\ events < MaxEvents
  /\ events' = events + 1
  /\ ~connected /\ "config" \notin faults /\ "drive" \notin faults
  /\ task["ui"].op = "none"
  /\ connected' = TRUE
  /\ watching' = TRUE
  /\ masterPassword' = Password
  /\ status' = "syncing"
  /\ task' = [task EXCEPT !["ui"] =
                [NoTask EXCEPT !.op = "fullSync", !.pc = "downloading"]]
  /\ UNCHANGED <<cfg, plugin, driveFile, isApplyingRemote, timer, faults, now, others>>

\* ---- triggers
\* the debounce window has passed: the subscriber calls syncToRemote
TimerFires ==
  /\ watching /\ timer # {}
  /\ task["auto"].op = "none"
  /\ task' = [task EXCEPT !["auto"] =
                StartedTo([NoTask EXCEPT !.op = "syncToRemote"])]
  /\ timer' = {}
  /\ status' = IF CanStart THEN "syncing" ELSE status
  /\ UNCHANGED <<cfg, plugin, driveFile, masterPassword, connected,
                 isApplyingRemote, watching, faults, now, events, others>>

\* a caller invokes the public fullSync()
CallFullSync ==
  /\ task["ui"].op = "none"
  /\ task' = [task EXCEPT !["ui"] = StartedFrom([NoTask EXCEPT !.op = "fullSync"])]
  /\ status' = IF CanStart THEN "syncing" ELSE status
  /\ UNCHANGED <<cfg, plugin, driveFile, masterPassword, connected,
                 isApplyingRemote, watching, timer, faults, now, events, others>>

\* SettingsComponent.restoreVersion calls restoreRemoteVersion(id)
CallRestore ==
  /\ task["ui"].op = "none"
  /\ task' = [task EXCEPT !["ui"] =
                IF masterPassword = "null"
                THEN Finished([NoTask EXCEPT !.op = "restore"], FALSE, "restore")
                ELSE [NoTask EXCEPT !.op = "restore", !.pc = "fetching"]]
  /\ UNCHANGED <<cfg, plugin, driveFile, masterPassword, connected,
                 isApplyingRemote, watching, status, timer, faults, now, events, others>>

\* the caller has taken the result
Return(t) ==
  /\ task[t].pc = "done"
  /\ task' = [task EXCEPT ![t] = NoTask]
  /\ UNCHANGED <<cfg, plugin, driveFile, masterPassword, connected,
                 isApplyingRemote, watching, status, timer, faults, now, events, others>>

DriveUp == "drive" \notin faults /\ connected

\* (error as Error).message of what the Drive client rejected with: nothing
\* when the rejection carries no message
Thrown(msg) == IF "bare" \in faults THEN "" ELSE msg

\* ---- syncToRemote
\* one attempt of retryWithBackoff fails: sleep and retry, or give up and
\* enter the catch block, whose savePluginConfig assigns lastSyncError
UploadFails(t) ==
  /\ task[t].pc = "uploading" /\ ~DriveUp
  /\ IF task[t].attempt < MAX_RETRIES - 1
     THEN /\ task' = [task EXCEPT ![t].attempt = @ + 1]
          /\ UNCHANGED plugin
     ELSE /\ task' = [task EXCEPT ![t].pc = "savingErrTo", ![t].attempt = 0,
                                  ![t].content = NoFile,
                                  ![t].error = Thrown("upload failed")]
          /\ plugin' = [plugin EXCEPT !.lastSyncError = Thrown("upload failed")]
  /\ UNCHANGED <<cfg, driveFile, masterPassword, connected, isApplyingRemote,
                 watching, status, timer, faults, now, events, others>>

UploadSucceeds(t) ==
  /\ task[t].pc = "uploading" /\ DriveUp
  /\ driveFile' = task[t].content
  /\ plugin' = Synced(plugin, now, LocalHost)
  /\ task' = [task EXCEPT ![t].pc = "savingTo", ![t].attempt = 0,
                          ![t].content = NoFile]
  /\ UNCHANGED <<cfg, masterPassword, connected, isApplyingRemote, watching,
                 status, timer, faults, now, events, others>>

\* ---- syncFromRemote
DownloadFails(t) ==
  /\ task[t].pc = "downloading" /\ ~DriveUp
  /\ IF task[t].attempt < MAX_RETRIES - 1
     THEN /\ task' = [task EXCEPT ![t].attempt = @ + 1]
          /\ UNCHANGED plugin
     ELSE /\ task' = [task EXCEPT ![t].pc = "savingErrFrom", ![t].attempt = 0,
                                  ![t].error = Thrown("download failed")]
          /\ plugin' = [plugin EXCEPT !.lastSyncError = Thrown("download failed")]
  /\ UNCHANGED <<cfg, driveFile, masterPassword, connected, isApplyingRemote,
                 watching, status, timer, faults, now, events, others>>

\* downloadSyncFile resolved: no file, a file that stops the cycle, or the
\* merge and the call of writeRaw under the guard
DownloadReturns(t) ==
  /\ task[t].pc = "downloading" /\ DriveUp
  /\ LET error == DownloadError(driveFile, masterPassword)
         m == MergeIntoLocal(cfg, decryptObject(driveFile, masterPassword),
                             LocalHost, now)
     IN CASE driveFile.kind = "none" ->
               /\ task' = [task EXCEPT ![t] = EndFrom(@, TRUE, "none")]
               /\ status' = StatusEndFrom(task[t], TRUE, "idle")
               /\ UNCHANGED <<cfg, plugin, isApplyingRemote>>
          [] driveFile.kind # "none" /\ error # "" ->
               /\ task' = [task EXCEPT ![t].pc = "savingErrFrom", ![t].attempt = 0,
                                       ![t].error = error]
               /\ plugin' = [plugin EXCEPT !.lastSyncError = error]
               /\ UNCHANGED <<cfg, status, isApplyingRemote>>
          [] driveFile.kind # "none" /\ error = "" /\ "config" \in faults ->
               \* writeRaw rejects and finally lowers the guard; the quick-cmds
               \* were written to the file before, unless that write failed too
               /\ cfg' \in {cfg, m.rawConfig}
               /\ isApplyingRemote' = FALSE
               /\ task' = [task EXCEPT ![t].pc = "savingErrFrom", ![t].attempt = 0,
                                       ![t].wrote = @ \/ cfg' # cfg,
                                       ![t].error = "config write failed"]
               /\ plugin' = [plugin EXCEPT !.lastSyncError = "config write failed"]
               /\ UNCHANGED status
          [] OTHER ->
               /\ cfg' = m.updatedConfig
               /\ isApplyingRemote' = TRUE
               /\ task' = [task EXCEPT ![t].pc = "writing", ![t].attempt = 0,
                                       ![t].wrote = @ \/ m.updatedConfig # cfg]
               /\ UNCHANGED <<plugin, status>>
  /\ UNCHANGED <<driveFile, masterPassword, connected, watching, timer, faults,
                 now, events, others>>

\* writeRaw resolved: its changed$ meets the filter, then the guard is
\* lowered and savePluginConfig assigns the bookkeeping
WriteCompletes(t) ==
  /\ task[t].pc = "writing"
  /\ timer' = Debounced(timer, "writeback", isApplyingRemote)
  /\ isApplyingRemote' = FALSE
  /\ plugin' = Synced(plugin, now, LocalHost)
  /\ task' = [task EXCEPT ![t].pc = "savingFrom"]
  /\ UNCHANGED <<cfg, driveFile, masterPassword, connected, watching, status,
                 faults, now, events, others>>

\* ---- savePluginConfig's config.save()
SaveCompletes(t) ==
  /\ task[t].pc \in {"savingTo", "savingFrom", "savingRestore"}
  /\ "config" \notin faults
  /\ timer' = Debounced(timer, "bookkeeping", isApplyingRemote)
  /\ CASE task[t].pc = "savingTo" ->
            /\ task' = [task EXCEPT ![t] = Finished(@, TRUE, "upload")]
            /\ status' = "idle"
       [] task[t].pc = "savingFrom" ->
            /\ task' = [task EXCEPT ![t] = EndFrom(@, TRUE, "merge")]
            /\ status' = StatusEndFrom(task[t], TRUE, "idle")
       [] task[t].pc = "savingRestore" ->
            /\ task' = [task EXCEPT ![t] = Finished(@, TRUE, "restore")]
            /\ UNCHANGED status
  /\ UNCHANGED <<cfg, plugin, driveFile, masterPassword, connected,
                 isApplyingRemote, watching, faults, now, events, others>>

\* config.save() rejects: the sync operations enter their catch block, whose
\* savePluginConfig assigns lastSyncError; restoreRemoteVersion returns false
SaveFails(t) ==
  /\ task[t].pc \in {"savingTo", "savingFrom", "savingRestore"}
  /\ "config" \in faults
  /\ CASE task[t].pc = "savingTo" ->
            /\ task' = [task EXCEPT ![t].pc = "savingErrTo",
                                    ![t].error = "config save failed"]
            /\ plugin' = [plugin EXCEPT !.lastSyncError = "config save failed"]
       [] task[t].pc = "savingFrom" ->
            /\ task' = [task EXCEPT ![t].pc = "savingErrFrom",
                                    ![t].error = "config save failed"]
            /\ plugin' = [plugin EXCEPT !.lastSyncError = "config save failed"]
       [] task[t].pc = "savingRestore" ->
            /\ task' = [task EXCEPT ![t] = Finished(@, FALSE, "restore")]
            /\ UNCHANGED plugin
  /\ UNCHANGED <<cfg, driveFile, masterPassword, connected, isApplyingRemote,
                 watching, status, timer, faults, now, events, others>>

\* the catch block's savePluginConfig resolved: status 'error', result returned
ErrorSaved(t) ==
  /\ task[t].pc \in {"savingErrTo", "savingErrFrom"}
  /\ "config" \notin faults
  /\ timer' = Debounced(timer, "bookkeeping", isApplyingRemote)
  /\ IF task[t].pc = "savingErrTo"
     THEN /\ status' = "error"
          /\ task' = [task EXCEPT ![t] = Finished(@, FALSE, "upload")]
     ELSE /\ status' = StatusEndFrom(task[t], FALSE, "error")
          /\ task' = [task EXCEPT ![t] = EndFrom(@, FALSE, "download")]
  /\ UNCHANGED <<cfg, plugin, driveFile, masterPassword, connected,
                 isApplyingRemote, watching, faults, now, events, others>>

\* the catch block's savePluginConfig rejects: the promise rejects and the
\* status is left as it is
ErrorSaveFails(t) ==
  /\ task[t].pc \in {"savingErrTo", "savingErrFrom"}
  /\ "config" \in faults
  /\ task' = [task EXCEPT ![t] =
                Finished([@ EXCEPT !.error = "config save failed"],
                         FALSE, "rejected")]
  /\ UNCHANGED <<cfg, plugin, driveFile, masterPassword, connected,
                 isApplyingRemote, watching, status, timer, faults, now, events, others>>

\* ---- restoreRemoteVersion (of the head revision)
FetchFails(t) ==
  /\ task[t].pc = "fetching" /\ ~DriveUp
  /\ task' = [task EXCEPT ![t] = Finished(@, FALSE, "restore")]
  /\ UNCHANGED <<cfg, plugin, driveFile, masterPassword, connected,
                 isApplyingRemote, watching, status, timer, faults, now, events, others>>

\* downloadVersion resolved: nothing usable, or the quick-cmds write, the
\* apply and the call of writeRaw
FetchReturns(t) ==
  /\ task[t].pc = "fetching" /\ DriveUp
  /\ LET payload == decryptObject(driveFile, masterPassword)
         r == RestoreIntoLocal(cfg, payload, now)
     IN CASE driveFile.kind # "enc" \/ payload = NoPayload ->
               /\ task' = [task EXCEPT ![t] = Finished(@, FALSE, "restore")]
               /\ UNCHANGED cfg
          [] driveFile.kind = "enc" /\ payload # NoPayload /\ "config" \in faults ->
               /\ cfg' \in {cfg, r.rawConfig}
               /\ task' = [task EXCEPT ![t] =
                             Finished([@ EXCEPT !.wrote = cfg' # cfg],
                                      FALSE, "restore")]
          [] OTHER ->
               /\ cfg' = r.updatedConfig
               /\ task' = [task EXCEPT ![t].pc = "restoring",
                                       ![t].wrote = r.updatedConfig # cfg]
  /\ UNCHANGED <<plugin, driveFile, masterPassword, connected, isApplyingRemote,
                 watching, status, timer, faults, now, events, others>>

\* writeRaw resolved: its changed$ meets the filter, then savePluginConfig
\* assigns the bookkeeping
RestoreWriteCompletes(t) ==
  /\ task[t].pc = "restoring"
  /\ timer' = Debounced(timer, "writeback", isApplyingRemote)
  /\ plugin' = [plugin EXCEPT !.lastSyncTime = now, !.lastSyncError = ""]
  /\ task' = [task EXCEPT ![t].pc = "savingRestore"]
  /\ UNCHANGED <<cfg, driveFile, masterPassword, connected, isApplyingRemote,
                 watching, status, faults, now, events, others>>

Next ==
  \/ UserEdit
  \/ Tick
  \/ FaultBegins
  \/ FaultEnds
  \/ OtherMachineUploads
  \/ clearPassword
  \/ setMasterPassword
  \/ disconnectGoogleDrive
  \/ connectGoogleDrive
  \/ TimerFires
  \/ CallFullSync
  \/ CallRestore
  \/ \E t \in Tasks :
       \/ Return(t)
       \/ UploadFails(t)
       \/ UploadSucceeds(t)
       \/ DownloadFails(t)
       \/ DownloadReturns(t)
       \/ WriteCompletes(t)
       \/ SaveCompletes(t)
       \/ SaveFails(t)
       \/ ErrorSaved(t)
       \/ ErrorSaveFails(t)
       \/ FetchFails(t)
       \/ FetchReturns(t)
       \/ RestoreWriteCompletes(t)

Spec == Init /\ [][Next]_vars

\* ---- the auto-sync path alone: the user edits, the network and the config
\* store fail and recover, the debounce timer fires and the subscriber's
\* syncToRemote runs.  The timer firing and every await of the call complete
\* in the end: the timer is an rxjs scheduler timeout, the awaits are
\* promises of the Drive client and of the config store, and at most one
\* step of the call is enabled at a time.
AutoStep ==
  \/ UploadFails("auto")
  \/ UploadSucceeds("auto")
  \/ SaveCompletes("auto")
  \/ SaveFails("auto")
  \/ ErrorSaved("auto")
  \/ ErrorSaveFails("auto")
  \/ Return("auto")

NextAuto ==
  \/ UserEdit
  \/ Tick
  \/ FaultBegins
  \/ FaultEnds
  \/ TimerFires
  \/ AutoStep

\* TimerFires is enabled exactly when the timer is armed and the subscriber
\* is free, and it always changes the state (it empties timer)
TimerArmed == watching /\ timer # {} /\ task["auto"].op = "none"

\* weak fairness of TimerFires, with ENABLED <<TimerFires>>_vars written as
\* the state predicate it equals
FairTimer == []<>(~TimerArmed) \/ []<><<TimerFires>>_vars

SpecAuto == Init /\ [][NextAuto]_vars /\ WF_vars(AutoStep) /\ FairTimer

\* ---- fullSync alone: the settings component calls it while the network
\* and the config store fail and recover and another machine uploads
FullStep ==
  \/ Return("ui")
  \/ DownloadFails("ui")
  \/ DownloadReturns("ui")
  \/ WriteCompletes("ui")
  \/ SaveCompletes("ui")
  \/ SaveFails("ui")
  \/ ErrorSaved("ui")
  \/ ErrorSaveFails("ui")
  \/ UploadFails("ui")
  \/ UploadSucceeds("ui")

NextFull ==
  \/ Tick
  \/ FaultBegins
  \/ BareFaultBegins
  \/ FaultEnds
  \/ OtherMachineUploads
  \/ CallFullSync
  \/ FullStep

SpecFull == Init /\ [][NextFull]_vars

\* C34 as stated: fullSync runs the download-merge half before the upload
\* half.  Its upload starts only when syncFromRemote has returned success,
\* which it does with action 'none' when there is no remote file; when
\* syncFromRemote returns success=false the upload is not started, the
\* blob is left as it is and that failure is fullSync's result.
C34_Original ==
  [][\A t \in Tasks :
       task[t].op = "fullSync" =>
         /\ (task'[t].pc = "uploading" /\ task[t].pc # "uploading")
              => \/ task[t].pc = "savingFrom"
                 \/ task[t].pc = "downloading" /\ driveFile.kind = "none"
         /\ (/\ task[t].pc = "savingErrFrom" /\ task'[t].pc # "savingErrFrom"
             /\ task'[t].action # "rejected")
              => /\ task'[t].pc = "done" /\ ~task'[t].ok
                 /\ task'[t].action = "download"
                 /\ task'[t].error = task[t].error
                 /\ driveFile' = driveFile
         /\ (/\ task[t].pc = "downloading" /\ driveFile.kind = "none"
             /\ task'[t].pc \notin {"downloading", "savingErrFrom"})
              => task'[t].pc = "uploading"]_vars

\* the errors syncFromRemote throws when the blob is not a valid payload
IntegrityErrors ==
  {"Remote sync file is corrupted (invalid JSON)",
   "Failed to decrypt remote data - wrong password or corrupted data",
   "Remote sync file has invalid structure"}

\* C35 as stated: in syncFromRemote the merge, applyPayloadToConfig and the
\* write-back are reached only when the blob parsed, decrypted to a payload
\* and passed the structure checks; when one of them fails nothing is
\* written to the local config and the cycle ends with success=false and
\* the error that names the failed check.
C35_Original ==
  [][\A t \in Tasks :
       /\ (task[t].pc = "downloading" /\ task'[t].pc = "writing")
            => DownloadError(driveFile, masterPassword) = ""
       /\ (/\ task[t].pc = "downloading" /\ DriveUp /\ driveFile.kind # "none"
           /\ DownloadError(driveFile, masterPassword) # ""
           /\ task'[t] # task[t])
            => /\ task'[t].pc = "savingErrFrom"
               /\ task'[t].error = DownloadError(driveFile, masterPassword)
               /\ task'[t].error \in IntegrityErrors
               /\ cfg' = cfg
       /\ (/\ task[t].pc = "savingErrFrom" /\ task[t].error \in IntegrityErrors
           /\ task'[t] # task[t])
            => /\ task'[t].pc = "done" /\ ~task'[t].ok
               /\ task'[t].action = "download"
               /\ task'[t].error = task[t].error
               /\ cfg' = cfg]_vars

\* a sync operation settles with a result it returns
Returns(t) ==
  /\ task[t].op \in {"syncToRemote", "fullSync"}
  /\ task[t].pc # "done" /\ task'[t].pc = "done"
  /\ task'[t].action # "rejected"

\* C36 as stated: the persisted lastSyncError reflects the outcome of the
\* most recent sync attempt.  When a sync operation returns success=false
\* lastSyncError is the returned error message, and when it returns
\* success=true lastSyncError is cleared.
C36_Original ==
  [][\A t \in Tasks :
       Returns(t) =>
         plugin'.lastSyncError = IF task'[t].ok THEN "" ELSE task'[t].error]_vars

\* the profile now holds version v's values in the syncable fields
RolledBackTo(now_, v) ==
  /\ \A k \in syncableFields : Get(now_, k) = Get(v, k)
  /\ \A k \in safeOptionFields :
       Get(Get(now_, "options"), k) = Get(Get(v, "options"), k)

\* C38 as stated: restore rolls back to the chosen version.  In the config
\* restoreRemoteVersion writes, every profile of the version is present
\* under its id with the version's values in the syncable top-level and
\* options fields, and a local profile of that id keeps its private keys.
C38_Original ==
  [][\A t \in Tasks :
       (task[t].pc = "fetching" /\ task'[t].pc = "restoring") =>
         LET version == decryptObject(driveFile, masterPassword).profiles
             before == Elems(Get(cfg, "profiles"))
             after == Elems(Get(cfg', "profiles"))
         IN \A i \in DOMAIN version :
              \E j \in DOMAIN after :
                 /\ Get(after[j], "id") = Get(version[i], "id")
                 /\ RolledBackTo(after[j], version[i])
                 /\ \A b \in DOMAIN before :
                      Get(before[b], "id") = Get(version[i], "id")
                        => /\ Get(after[j], "privateKey") = Get(before[b], "privateKey")
                           /\ Get(Get(after[j], "options"), "privateKeys")
                                = Get(Get(before[b], "options"), "privateKeys")]_vars

\* C33 as stated: auto-sync quiesces.  After the user's edits have stopped
\* only finitely many uploads happen: from some point on no syncToRemote
\* replaces the blob again, the plugin's own config.save() of its
\* bookkeeping not re-arming the watcher for ever.
C33_Original == <>[][~UploadSucceeds("auto")]_vars

\* ---- what the properties speak of
NoForbidden(payload) ==
  \A i \in DOMAIN payload.profiles : ~HasForbidden(payload.profiles[i])

\* the ids of the profiles of config that sync carries
SyncableIds(config) ==
  IdsOf(createSyncPayload(config, LocalHost, Undefined, 0).profiles)

HoldsSecrets(config) ==
  \E i \in DOMAIN Elems(Get(config, "profiles")) :
     HasForbidden(Elems(Get(config, "profiles"))[i])

\* C1: whatever edits, syncs, restores and faults came before, the payload
\* of every upload in flight, and the blob once this machine has written it,
\* hold no forbidden key in any profile.
C1_NoSecretReachesDrive ==
  /\ \A t \in Tasks :
       task[t].pc = "uploading" => NoForbidden(task[t].content.payload)
  /\ (driveFile.kind = "enc" /\ driveFile.payload.sourceHost = LocalHost)
       => NoForbidden(driveFile.payload)

\* the blob was written by fullSync after a merge brought in the other
\* machine's profile p3, while the local config holds private keys
C1_Witness ==
  /\ driveFile.kind = "enc"
  /\ driveFile.payload.sourceHost = LocalHost
  /\ Str("p3") \in IdsOf(driveFile.payload.profiles)
  /\ Str("p1") \in IdsOf(driveFile.payload.profiles)
  /\ HoldsSecrets(cfg)

\* C3 as stated: a syncFromRemote that returned success=false (alone or as
\* the first half of fullSync), and a restoreRemoteVersion that returned
\* false, did not change the local configuration.
C3_Original ==
  \A t \in Tasks :
     (task[t].pc = "done" /\ ~task[t].ok /\ task[t].action \in {"download", "restore"})
       => ~task[t].wrote

\* C4 as stated: the two callers are never both past the precondition
\* checks of a sync operation at the same time.
C4_Original ==
  ~(task["auto"].pc \in InFlight /\ task["ui"].pc \in InFlight)

\* C5 as stated: no automatic syncToRemote call is started by a debounce
\* window that holds nothing but the change event of a write-back.
C5_Original ==
  [][(timer = {"writeback"} /\ task["auto"].op = "none")
       => task'["auto"].op = "none"]_vars

\* C7: at every merge of syncFromRemote the merged profile ids are exactly
\* the local ids together with the remote ids, every profile that only the
\* local side has is in the merged list unchanged, and the ids of the
\* syncable profiles of the local config before the write are all still
\* there after it.
C7_SyncNeverRemovesProfiles ==
  [][\A t \in Tasks :
       (task[t].pc = "downloading" /\ task'[t].pc = "writing") =>
         LET remotePayload == decryptObject(driveFile, masterPassword)
             m == MergeIntoLocal(cfg, remotePayload, LocalHost, now)
             localProfiles == m.localPayload.profiles
             merged == m.mergeResult.mergedPayload.profiles
         IN /\ IdsOf(merged) = IdsOf(localProfiles) \cup IdsOf(remotePayload.profiles)
            /\ \A i \in DOMAIN localProfiles :
                 Get(localProfiles[i], "id") \notin IdsOf(remotePayload.profiles)
                   => \E j \in DOMAIN merged : merged[j] = localProfiles[i]
            /\ SyncableIds(cfg) \subseteq SyncableIds(cfg')]_vars

\* a merge has been written in which p2 existed only locally and p3 only
\* remotely: the local config holds both
C7_Witness ==
  /\ \E t \in Tasks : task[t].pc = "writing"
  /\ driveFile.kind = "enc"
  /\ Str("p2") \notin IdsOf(driveFile.payload.profiles)
  /\ {Str("p1"), Str("p2"), Str("p3")} \subseteq SyncableIds(cfg)

\* the strings toPortablePath produces: they begin with HOME_VAR
PortablePaths == {toPortablePath(Str(x)).s : x \in LocalPaths} \ LocalPaths

\* no terminal background and no profile cwd of config is a portable path
NoPortablePath(config) ==
  /\ Get(Get(config, "terminal"), "background").s \notin PortablePaths
  /\ \A i \in DOMAIN Elems(Get(config, "profiles")) :
       Get(Get(Elems(Get(config, "profiles"))[i], "options"), "cwd").s
         \notin PortablePaths

\* C18 as stated: when syncFromRemote returns success (to its caller, or to
\* fullSync, which goes on to upload), the terminal background and every
\* profile cwd of the local config are local paths, none a string that
\* begins with $TABBY_SYNC_HOME.
C18_Original ==
  [][\A t \in Tasks :
       (/\ task[t].pc = "savingFrom"
        /\ task'[t].pc \in {"done", "uploading"}
        /\ task'[t].pc = "done" => task'[t].ok)
         => NoPortablePath(cfg')]_vars

\* the retry loop of t's upload or download gave up and the catch block is
\* persisting lastSyncError
Exhausted(t) ==
  /\ task[t].pc \in {"savingErrTo", "savingErrFrom"}
  /\ task[t].error \in {"upload failed", "download failed"}

\* C21 as stated: an operation whose upload or download failed on every
\* attempt settles with a result success=false that carries the last
\* attempt's error message, and with the sync status at 'error'.
C21_Original ==
  [][\A t \in Tasks :
       (Exhausted(t) /\ task'[t].pc = "done")
         => /\ ~task'[t].ok
            /\ task'[t].action \in {"upload", "download"}
            /\ task'[t].error = task[t].error
            /\ status' = "error"]_vars

\* a call of syncToRemote or fullSync (hence syncFromRemote) by caller t
Called(t) ==
  task[t].op = "none" /\ task'[t].op \in {"syncToRemote", "fullSync"}

\* fullSync's syncFromRemote returns and fullSync decides on syncToRemote
SecondLeg(t) ==
  /\ task[t].op = "fullSync"
  /\ task[t].pc \in {"downloading", "savingFrom"}
  /\ task'[t].pc \notin {"downloading", "savingFrom", "writing", "savingErrFrom"}

\* C22: a call of syncToRemote or syncFromRemote made while the master
\* password is not in memory or Drive is not connected settles at once with
\* success=false, action 'none' and an error; it starts no download, no
\* upload and no retry, and leaves the sync status, the local config, the
\* bookkeeping and the remote file as they were.  Within fullSync, the
\* syncToRemote that follows a syncFromRemote starts no upload either.
C22_NoSyncWithoutPasswordOrDrive ==
  [][\A t \in Tasks :
       (masterPassword' = "null" \/ ~connected') =>
         /\ Called(t) =>
              /\ task'[t].pc = "done"
              /\ ~task'[t].ok
              /\ task'[t].action = "none"
              /\ task'[t].error \in {"Master password not set",
                                     "Not connected to Google Drive"}
              /\ task'[t].attempt = 0
              /\ task'[t].content = NoFile
              /\ UNCHANGED <<status, cfg, plugin, driveFile>>
         /\ SecondLeg(t) =>
              /\ task'[t].pc = "done"
              /\ task'[t].content = NoFile
              /\ driveFile' = driveFile]_vars

\* both kinds of refused call have happened: the automatic syncToRemote
\* after clearPassword, and a fullSync while Drive was disconnected
C22_Witness ==
  \E t \in Tasks :
     /\ task[t].pc = "done" /\ ~task[t].ok /\ task[t].action = "none"
     /\ \/ task[t].op = "syncToRemote" /\ task[t].error = "Master password not set"
        \/ task[t].op = "fullSync" /\ task[t].error = "Not connected to Google Drive"

\* C23 as stated (its safety half): when a syncToRemote, syncFromRemote or
\* fullSync that had set the status to 'syncing' settles, the status it
\* leaves is 'idle' or 'error', also when persisting lastSyncTime or
\* lastSyncError failed.
C23_Original ==
  [][\A t \in Tasks :
       (/\ task[t].op \in {"syncToRemote", "fullSync"}
        /\ task[t].pc \in InFlight
        /\ task'[t].pc = "done")
         => status' \in {"idle", "error"}]_vars

(***************************************************************************)
(* SpecFleet: two machines, one blob, one wall clock.  Each machine's      *)
(* syncToRemote and syncFromRemote run to completion without faults; what  *)
(* is observed is which side's values a machine holds after it synced.     *)
(***************************************************************************)
MaxClock == 3

Machines == {"A", "B"}

FleetConfig ==
  RawConfig(<<MergeRaw("p1", Str("n1"), "h1", Str("pw1"), Undefined), P2Raw>>, 0)

\* the name of profile p1 in a list of profiles
NameOfP1(q) == Get(FindById(q, Str("p1")), "name")

InitFleet ==
  /\ fleet = [cfg |-> [m \in Machines |-> FleetConfig],
              blob |-> NoFile,
              clock |-> 1,
              editedAt |-> [m \in Machines |-> 0],
              deleted |-> [m \in Machines |-> FALSE],
              last |-> [op |-> "none", m |-> "A"]]
  /\ SanParked /\ MergeParked /\ SysParked /\ TimedParked /\ PureParked

\* the user of machine m renames p1
FleetEdit(m) ==
  /\ \E nm \in {"n1", "n2"} :
        LET ps == Elems(Get(fleet.cfg[m], "profiles"))
            renamed == Put(fleet.cfg[m], "profiles", Arr(SetName(ps, "p1", nm)))
        IN /\ renamed # fleet.cfg[m]
           /\ fleet' = [fleet EXCEPT !.cfg[m] = renamed,
                                     !.editedAt[m] = fleet.clock,
                                     !.last = [op |-> "edit", m |-> m]]
  /\ UNCHANGED <<sanVars, mergeVars, sysVars, pureVars, timedVars>>

\* the user of machine m deletes profile p2
FleetDelete(m) ==
  /\ LET ps == Elems(Get(fleet.cfg[m], "profiles"))
     IN /\ Str("p2") \in IdsOf(ps)
        /\ ~fleet.deleted[m]
        /\ fleet' = [fleet EXCEPT
                       !.cfg[m] = Put(fleet.cfg[m], "profiles",
                                      Arr(Filter(ps, LAMBDA p : Get(p, "id") # Str("p2")))),
                       !.editedAt[m] = fleet.clock,
                       !.deleted[m] = TRUE,
                       !.last = [op |-> "delete", m |-> m]]
  /\ UNCHANGED <<sanVars, mergeVars, sysVars, pureVars, timedVars>>

\* the user of machine m creates a profile: p3, or one that has no type yet
FleetAdd(m) ==
  /\ \E p \in {P3Raw, UntypedRaw} :
        LET ps == Elems(Get(fleet.cfg[m], "profiles"))
        IN /\ Get(p, "id") \notin IdsOf(ps)
           /\ fleet' = [fleet EXCEPT
                          !.cfg[m] = Put(fleet.cfg[m], "profiles", Arr(ps \o <<p>>)),
                          !.editedAt[m] = fleet.clock,
                          !.last = [op |-> "add", m |-> m]]
  /\ UNCHANGED <<sanVars, mergeVars, sysVars, pureVars, timedVars>>

\* machine m runs syncToRemote
FleetSyncToRemote(m) ==
  /\ fleet' = [fleet EXCEPT
                 !.blob = encryptObject(UploadPayload(fleet.cfg[m], m, fleet.clock),
                                        Password),
                 !.last = [op |-> "syncToRemote", m |-> m]]
  /\ UNCHANGED <<sanVars, mergeVars, sysVars, pureVars, timedVars>>

\* machine m runs syncFromRemote on a blob that exists
FleetSyncFromRemote(m) ==
  /\ fleet.blob.kind = "enc"
  /\ fleet' = [fleet EXCEPT
                 !.cfg[m] = MergeIntoLocal(fleet.cfg[m],
                                           decryptObject(fleet.blob, Password),
                                           m, fleet.clock).updatedConfig,
                 !.last = [op |-> "syncFromRemote", m |-> m]]
  /\ UNCHANGED <<sanVars, mergeVars, sysVars, pureVars, timedVars>>

FleetTick ==
  /\ fleet.clock < MaxClock
  /\ fleet' = [fleet EXCEPT !.clock = @ + 1, !.last = [op |-> "tick", m |-> "A"]]
  /\ UNCHANGED <<sanVars, mergeVars, sysVars, pureVars, timedVars>>

NextFleet ==
  \/ FleetTick
  \/ \E m \in Machines :
       \/ FleetEdit(m)
       \/ FleetDelete(m)
       \/ FleetSyncToRemote(m)
       \/ FleetSyncFromRemote(m)

SpecFleet == InitFleet /\ [][NextFleet]_vars

\* the same two machines when their users create profiles and sync, and
\* neither renames nor deletes
NextGrow ==
  \/ FleetTick
  \/ \E m \in Machines :
       \/ FleetAdd(m)
       \/ FleetSyncToRemote(m)
       \/ FleetSyncFromRemote(m)

SpecGrow == InitFleet /\ [][NextGrow]_vars

ProfilesOf(config) == Elems(Get(config, "profiles"))

\* the raw profile p is in the list q: under its id when it has one
PresentIn(p, q) ==
  \E j \in DOMAIN q :
     IF "id" \in Keys(p) THEN Get(q[j], "id") = Get(p, "id") ELSE q[j] = p

\* C31 as stated: a successful syncFromRemote removes no profile from the
\* local raw config; every profile the config held before the cycle, the
\* ones without an id or a type included, is in the config written back.
C31_Original ==
  [][\A m \in Machines :
       fleet'.last = [op |-> "syncFromRemote", m |-> m] =>
         \A i \in DOMAIN ProfilesOf(fleet.cfg[m]) :
            PresentIn(ProfilesOf(fleet.cfg[m])[i], ProfilesOf(fleet'.cfg[m]))]_vars

\* C32 as stated: an upload loses no other machine's data.  When machine m
\* runs syncToRemote over a blob that holds profiles m has never held, those
\* profiles are in the blob afterwards; the profile ids of the blob never
\* shrink.
C32_Original ==
  [][\A m \in Machines :
       (fleet'.last = [op |-> "syncToRemote", m |-> m] /\ fleet.blob.kind = "enc") =>
         IdsOf(fleet.blob.payload.profiles) \subseteq IdsOf(fleet'.blob.payload.profiles)]_vars

\* C9 as stated: when a machine has just run syncFromRemote on a blob the
\* other machine uploaded, and its own last edit is older than that upload,
\* its profile p1 carries the name the blob holds.
C9_Original ==
  LET m == fleet.last.m
      remotePayload == fleet.blob.payload
  IN (/\ fleet.last.op = "syncFromRemote"
      /\ remotePayload.sourceHost # m
      /\ fleet.editedAt[m] < remotePayload.lastUpdated)
       => NameOfP1(Elems(Get(fleet.cfg[m], "profiles"))) = NameOfP1(remotePayload.profiles)

\* C17 as stated: once the user of a machine has deleted profile p2, no
\* later syncFromRemote on that machine puts p2 back into its config, even
\* while the blob still holds p2.
C17_Original ==
  \A m \in Machines :
     fleet.deleted[m] => Str("p2") \notin IdsOf(Elems(Get(fleet.cfg[m], "profiles")))

(***************************************************************************)
(* SpecDebounce: the change watcher of startWatchingChanges with a clock   *)
(* in milliseconds.  changed$ events pass filter(!isApplyingRemote) and    *)
(* restart the debounce timer; when the timer is due the subscriber calls  *)
(* syncToRemote.  A timer that is due fires before anything else happens   *)
(* at that instant.  A burst is a run of change events in which every two  *)
(* consecutive events are less than SYNC_DEBOUNCE_MS apart.                *)
(***************************************************************************)
SYNC_DEBOUNCE_MS == 5000
MaxChanges == 3
MaxDebounceClock == 12000

\* how far the clock moves in one step
Durations == {1000, 2000, 5000}

InitDebounce ==
  /\ debounce = [clock |-> 0, armed |-> FALSE, dueAt |-> 0, applying |-> FALSE,
                 lastEventAt |-> 0, changes |-> 0, bursts |-> 0, calls |-> 0]
  /\ retry = "-"
  /\ SanParked /\ MergeParked /\ SysParked /\ FleetParked /\ PureParked

TimerDue == debounce.armed /\ debounce.clock >= debounce.dueAt

\* the config store emits changed$ for a change the user made
ConfigChanged ==
  /\ debounce.changes < MaxChanges
  /\ ~TimerDue
  /\ debounce' =
       [debounce EXCEPT
          !.changes = @ + 1,
          !.bursts = IF \/ debounce.changes = 0
                        \/ debounce.clock - debounce.lastEventAt >= SYNC_DEBOUNCE_MS
                     THEN @ + 1 ELSE @,
          !.lastEventAt = debounce.clock,
          !.armed = @ \/ ~debounce.applying,
          !.dueAt = IF debounce.applying THEN @
                    ELSE debounce.clock + SYNC_DEBOUNCE_MS]
  /\ UNCHANGED <<sanVars, mergeVars, sysVars, pureVars, fleet, retry>>

\* the debounce timer is due: the subscriber calls syncToRemote
DebounceElapsed ==
  /\ TimerDue
  /\ debounce' = [debounce EXCEPT !.calls = @ + 1, !.armed = FALSE]
  /\ UNCHANGED <<sanVars, mergeVars, sysVars, pureVars, fleet, retry>>

TimePasses ==
  /\ \E d \in Durations :
        /\ debounce.clock + d <= MaxDebounceClock
        /\ ~debounce.armed \/ debounce.clock + d <= debounce.dueAt
        /\ debounce' = [debounce EXCEPT !.clock = @ + d]
  /\ UNCHANGED <<sanVars, mergeVars, sysVars, pureVars, fleet, retry>>

\* syncFromRemote raises isApplyingRemote and awaits config.writeRaw
ApplyBegins ==
  /\ ~debounce.applying /\ ~TimerDue
  /\ debounce' = [debounce EXCEPT !.applying = TRUE]
  /\ UNCHANGED <<sanVars, mergeVars, sysVars, pureVars, fleet, retry>>

\* writeRaw settled: the finally block lowers isApplyingRemote
ApplyEnds ==
  /\ debounce.applying /\ ~TimerDue
  /\ debounce' = [debounce EXCEPT !.applying = FALSE]
  /\ UNCHANGED <<sanVars, mergeVars, sysVars, pureVars, fleet, retry>>

NextDebounce ==
  \/ ConfigChanged
  \/ DebounceElapsed
  \/ TimePasses
  \/ ApplyBegins
  \/ ApplyEnds

SpecDebounce == InitDebounce /\ [][NextDebounce]_vars

\* the last burst is over: more than the quiet window has passed since its
\* last event
Quiet ==
  /\ debounce.changes > 0
  /\ debounce.clock > debounce.lastEventAt + SYNC_DEBOUNCE_MS

\* C19 as stated: syncToRemote is called only when SYNC_DEBOUNCE_MS have
\* passed since the last change event, never more often than once per
\* burst, and once a burst is over it has had its one call.
C19_Original ==
  [][/\ debounce'.calls # debounce.calls
          => debounce.clock >= debounce.lastEventAt + SYNC_DEBOUNCE_MS
     /\ debounce'.calls <= debounce'.bursts
     /\ Quiet' => debounce'.calls = debounce'.bursts]_vars

(***************************************************************************)
(* SpecRetry: one call of retryWithBackoff around a network operation      *)
(* whose attempts resolve or reject as the network decides.                *)
(***************************************************************************)
INITIAL_RETRY_DELAY_MS == 1000

\* the wrapped operations and what they resolve to
Operations == {"uploadSyncFile", "downloadSyncFile"}
Resolutions(op) ==
  IF op = "uploadSyncFile" THEN {"undefined"} ELSE {"content", "null"}
Rejections == {"ETIMEDOUT", "ECONNRESET", "HTTP 500"}

\* all the waits are the same length
nextDelay_constant(delay) == delay

\* delay *= 2
nextDelay(delay) == delay * 2

InitRetry ==
  /\ retry \in {[operation |-> op, maxRetries |-> MAX_RETRIES, pc |-> "calling",
                 attempt |-> 0, delay |-> INITIAL_RETRY_DELAY_MS,
                 invoked |-> 1, outcomes |-> <<>>, slept |-> <<>>,
                 lastError |-> "", settled |-> ""] : op \in Operations}
  /\ debounce = "-"
  /\ SanParked /\ MergeParked /\ SysParked /\ FleetParked /\ PureParked

\* the attempt resolves: retryWithBackoff returns its value
OperationResolves ==
  /\ retry.pc = "calling"
  /\ \E v \in Resolutions(retry.operation) :
        retry' = [retry EXCEPT !.pc = "returned", !.settled = v,
                               !.outcomes = Append(@, v)]
  /\ UNCHANGED <<sanVars, mergeVars, sysVars, pureVars, fleet, debounce>>

\* the attempt rejects: sleep before the next one, or leave the loop and throw
OperationRejects ==
  /\ retry.pc = "calling"
  /\ \E e \in Rejections :
        retry' =
          IF retry.attempt < retry.maxRetries - 1
          THEN [retry EXCEPT !.pc = "sleeping", !.lastError = e,
                             !.outcomes = Append(@, e)]
          ELSE [retry EXCEPT !.pc = "thrown", !.lastError = e, !.settled = e,
                             !.outcomes = Append(@, e)]
  /\ UNCHANGED <<sanVars, mergeVars, sysVars, pureVars, fleet, debounce>>

\* sleep(delay) resolved: the delay doubles and the next attempt is made
SleepElapses ==
  /\ retry.pc = "sleeping"
  /\ retry' = [retry EXCEPT !.pc = "calling",
                            !.slept = Append(@, retry.delay),
                            !.delay = nextDelay(@),
                            !.attempt = @ + 1,
                            !.invoked = @ + 1]
  /\ UNCHANGED <<sanVars, mergeVars, sysVars, pureVars, fleet, debounce>>

NextRetry ==
  \/ OperationResolves
  \/ OperationRejects
  \/ SleepElapses

SpecRetry == InitRetry /\ [][NextRetry]_vars

\* the waits before the 2nd and the 3rd attempt
Backoff == <<1000, 2000>>

\* C20: the operation is invoked at most 3 times; the wait before the 2nd
\* attempt is 1000 ms and the one before the 3rd is 2000 ms; an attempt that
\* resolved is the last one and its value is what is returned; after the
\* last failed attempt the error is thrown without a further wait.
C20_RetryBackoff ==
  /\ retry.invoked <= 3
  /\ retry.slept = SubSeq(Backoff, 1, retry.invoked - 1)
  /\ \A i \in 1..(Len(retry.outcomes) - 1) : retry.outcomes[i] \in Rejections
  /\ retry.pc = "calling" => Len(retry.outcomes) = retry.invoked - 1
  /\ retry.pc # "calling" => Len(retry.outcomes) = retry.invoked
  /\ retry.pc = "returned"
       => /\ retry.settled = retry.outcomes[Len(retry.outcomes)]
          /\ retry.settled \in Resolutions(retry.operation)
  /\ retry.pc = "thrown"
       => /\ retry.invoked = 3
          /\ Len(retry.slept) = 2
          /\ retry.settled = retry.outcomes[3]
          /\ retry.settled \in Rejections

\* two attempts failed, 1000 ms and then 2000 ms were waited, and the third
\* attempt resolved with the file's content
C20_Witness ==
  /\ retry.pc = "returned"
  /\ retry.operation = "downloadSyncFile"
  /\ retry.invoked = 3
  /\ retry.slept = <<1000, 2000>>
  /\ retry.settled = "content"

(***************************************************************************)
(* SpecPath: PathMapper (path-mapper.util.ts) on one path.  A string is    *)
(* the sequence of its characters; the token $TABBY_SYNC_HOME counts as    *)
(* one character.  path.normalize, path.join and path.sep are Node's, for  *)
(* the platform the code runs on.                                          *)
(***************************************************************************)
Platforms == {"posix", "win32"}

sep(platform) == IF platform = "win32" THEN "\\" ELSE "/"
\* the characters path.normalize takes for separators
Separators(platform) == IF platform = "win32" THEN {"/", "\\"} ELSE {"/"}

\* os.homedir()
homedir(platform) ==
  IF platform = "win32" THEN <<"C", ":", "\\", "H">> ELSE <<"/", "h">>

HomeVarChars == <<HOME_VAR>>

\* String.prototype.startsWith, substring(n), toLowerCase, split, join
StartsWith(str, prefix) ==
  Len(str) >= Len(prefix) /\ SubSeq(str, 1, Len(prefix)) = prefix
Substring(str, n) == SubSeq(str, n + 1, Len(str))
LowerOf(c) ==
  CASE c = "C" -> "c" [] c = "D" -> "d" [] c = "H" -> "h" [] OTHER -> c
ToLowerCase(str) == [i \in DOMAIN str |-> LowerOf(str[i])]

RECURSIVE Split(_, _)
Split(str, seps) ==
  IF str = <<>> THEN << <<>> >>
  ELSE LET r == Split(Tail(str), seps)
       IN IF Head(str) \in seps THEN << <<>> >> \o r
          ELSE << <<Head(str)>> \o Head(r) >> \o Tail(r)

RECURSIVE Join(_, _)
Join(segs, glue) ==
  IF segs = <<>> THEN <<>>
  ELSE IF Len(segs) = 1 THEN segs[1]
  ELSE segs[1] \o glue \o Join(Tail(segs), glue)

\* Node's normalizeString: empty and '.' segments go, '..' takes one back
RECURSIVE normalizeString(_, _, _)
normalizeString(segs, acc, allowAboveRoot) ==
  IF segs = <<>> THEN acc
  ELSE LET h == Head(segs)
           rest == Tail(segs)
       IN IF h = <<>> \/ h = <<".">> THEN normalizeString(rest, acc, allowAboveRoot)
          ELSE IF h = <<".", ".">>
          THEN IF acc # <<>> /\ acc[Len(acc)] # <<".", ".">>
               THEN normalizeString(rest, SubSeq(acc, 1, Len(acc) - 1), allowAboveRoot)
               ELSE IF allowAboveRoot
               THEN normalizeString(rest, Append(acc, h), allowAboveRoot)
               ELSE normalizeString(rest, acc, allowAboveRoot)
          ELSE normalizeString(rest, Append(acc, h), allowAboveRoot)

\* path.normalize: the device and the root are kept, separators collapse
\* into the platform's, a trailing separator is kept
normalize(platform, str) ==
  IF str = <<>> THEN <<".">>
  ELSE
    LET seps == Separators(platform)
        hasDevice == platform = "win32" /\ Len(str) >= 2 /\ str[2] = ":"
        device == IF hasDevice THEN SubSeq(str, 1, 2) ELSE <<>>
        afterDevice == Substring(str, Len(device))
        isAbsolute == afterDevice # <<>> /\ afterDevice[1] \in seps
        trailing == afterDevice # <<>> /\ afterDevice[Len(afterDevice)] \in seps
        segs == normalizeString(Split(afterDevice, seps), <<>>, ~isAbsolute)
        tail == Join(segs, <<sep(platform)>>)
        root == IF isAbsolute THEN <<sep(platform)>> ELSE <<>>
    IN IF tail = <<>>
       THEN IF isAbsolute THEN device \o root
            ELSE IF hasDevice THEN device \o <<".">>
            ELSE IF trailing THEN <<".", sep(platform)>> ELSE <<".">>
       ELSE device \o root \o tail
              \o (IF trailing THEN <<sep(platform)>> ELSE <<>>)

\* path.join: the non-empty arguments joined by path.sep, then normalized
join(platform, args) ==
  LET given == Filter(args, LAMBDA a : a # <<>>)
      joined == Join(given, <<sep(platform)>>)
  IN IF joined = <<>> THEN <<".">> ELSE normalize(platform, joined)

\* PathMapper.toPortablePath for a string argument
PathMapper_toPortablePath(platform, localPath) ==
  LET normalizedHome == normalize(platform, homedir(platform))
      normalizedPath == normalize(platform, localPath)
      isWindows == platform = "win32"
      startsWithHome ==
        IF isWindows
        THEN StartsWith(ToLowerCase(normalizedPath), ToLowerCase(normalizedHome))
        ELSE StartsWith(normalizedPath, normalizedHome)
      cut == Substring(normalizedPath, Len(normalizedHome))
      relative == IF StartsWith(cut, <<sep(platform)>>) THEN Substring(cut, 1)
                  ELSE cut
      portableRelative == Join(Split(relative, {sep(platform)}), <<"/">>)
  IN IF startsWithHome THEN HomeVarChars \o <<"/">> \o portableRelative
     ELSE localPath

\* PathMapper.toLocalPath for a string argument
toLocalPath(platform, portablePath) ==
  IF StartsWith(portablePath, HomeVarChars)
  THEN LET relative == Substring(portablePath, Len(HomeVarChars))
           cleanRelative == IF StartsWith(relative, <<"/">>)
                            THEN Substring(relative, 1) ELSE relative
       IN join(platform, <<homedir(platform)>> \o Split(cleanRelative, {"/"}))
  ELSE portablePath

\* ---- the paths tried
\* what a path begins with: the home directory, the home directory in
\* another letter case, another directory
Prefixes(platform) ==
  IF platform = "win32"
  THEN {homedir(platform), <<"c", ":", "\\", "h">>, <<"D", ":", "\\", "s">>}
  ELSE {homedir(platform), <<"/", "H">>, <<"/", "s">>}

\* what follows: nothing, a separator, files and directories below, doubled
\* separators and dot segments, and the rest of a sibling directory's name
Tails(platform) ==
  LET s == sep(platform)
  IN {<<>>, <<s>>, <<s, "a">>, <<s, "a", s>>, <<s, "a", s, "b">>,
      <<s, "a", s, s, "b">>, <<s, ".", s, "a">>, <<s, "a", s, ".", ".", s, "b">>,
      <<"2", s, "x">>}
       \cup (IF platform = "win32" THEN {<<"/", "a">>, <<"/", "a", "/", "b">>}
             ELSE {})

PathInputs(platform) ==
  {pre \o tl : pre \in Prefixes(platform), tl \in Tails(platform)}

NoPath == <<>>

InitPath ==
  /\ \E pf \in Platforms :
       \E p \in PathInputs(pf) :
          mapper = [platform |-> pf, p |-> p, pc |-> "start",
                    portable |-> NoPath, local |-> NoPath]
  /\ crypt = "-" /\ vault = "-"
  /\ SanParked /\ MergeParked /\ SysParked /\ FleetParked /\ TimedParked

CallToPortablePath ==
  /\ mapper.pc = "start"
  /\ mapper' = [mapper EXCEPT
                  !.pc = "portable",
                  !.portable = PathMapper_toPortablePath(mapper.platform, mapper.p)]
  /\ UNCHANGED <<sanVars, mergeVars, sysVars, fleet, timedVars, crypt, vault>>

CallToLocalPath ==
  /\ mapper.pc = "portable"
  /\ mapper' = [mapper EXCEPT
                  !.pc = "local",
                  !.local = toLocalPath(mapper.platform, mapper.portable)]
  /\ UNCHANGED <<sanVars, mergeVars, sysVars, fleet, timedVars, crypt, vault>>

NextPath ==
  \/ CallToPortablePath
  \/ CallToLocalPath

SpecPath == InitPath /\ [][NextPath]_vars

\* the names along a path, device first, compared as the platform's file
\* system compares them
Names(platform, str) ==
  LET n == Filter(Split(normalize(platform, str), Separators(platform)),
                  LAMBDA a : a # <<>>)
  IN IF platform = "win32" THEN [i \in DOMAIN n |-> ToLowerCase(n[i])] ELSE n

\* p is the home directory or lies below it
UnderHome(platform, p) ==
  LET h == Names(platform, homedir(platform))
      n == Names(platform, p)
  IN Len(n) >= Len(h) /\ SubSeq(n, 1, Len(h)) = h

\* C25 as stated: for every path under the home directory, toLocalPath of
\* its toPortablePath on the same platform is the platform-normalized path,
\* also for a home prefix in another letter case on Windows and for a path
\* that ends in a separator.
C25_Original ==
  (mapper.pc = "local" /\ UnderHome(mapper.platform, mapper.p))
    => mapper.local = normalize(mapper.platform, mapper.p)

\* C40 as stated: toPortablePath returns unchanged every path that is not
\* under the home directory, a path in a sibling directory whose name
\* begins with the home directory's name included, and toLocalPath returns
\* unchanged every string that does not start with the home token.
C40_Original ==
  /\ (mapper.pc \in {"portable", "local"}
        /\ ~UnderHome(mapper.platform, mapper.p))
       => mapper.portable = mapper.p
  /\ (mapper.pc = "local" /\ ~StartsWith(mapper.portable, HomeVarChars))
       => mapper.local = mapper.portable

(***************************************************************************)
(* SpecCrypto: CryptoService (crypto.service.ts) on one message.  A string *)
(* is the sequence of its UTF-16 code units; a JSON punctuator, literal or *)
(* escape counts as one unit.  A Buffer is a sequence of bytes.  A base64  *)
(* text is the bytes it decodes to together with the bits of its last      *)
(* character that the decoder does not read.  AES-256-GCM and PBKDF2 are   *)
(* ideal: a key is the pair it was derived from, a ciphertext byte opens   *)
(* only under its key, IV and position, and a tag verifies only for the    *)
(* key, IV and ciphertext it was computed over.                            *)
(***************************************************************************)
\* ---- strings and UTF-8
HighSurrogate == "D83D"
LowSurrogate  == "DE00"
Replacement   == "FFFD"

\* cipher.update(data, 'utf8'): an unpaired surrogate is written as U+FFFD
RECURSIVE utf8Encode(_)
utf8Encode(units) ==
  IF units = <<>> THEN <<>>
  ELSE LET h == Head(units)
       IN IF h = HighSurrogate /\ Len(units) >= 2 /\ units[2] = LowSurrogate
          THEN <<"f0", "9f", "98", "80">> \o utf8Encode(Tail(Tail(units)))
          ELSE IF h \in {HighSurrogate, LowSurrogate, Replacement}
          THEN <<"ef", "bf", "bd">> \o utf8Encode(Tail(units))
          ELSE IF h = "e9" THEN <<"c3", "a9">> \o utf8Encode(Tail(units))
          ELSE <<h>> \o utf8Encode(Tail(units))

\* every byte taken for a character of its own
utf8Decode_bytewise(bytes) == bytes

\* decrypted.toString('utf8')
RECURSIVE utf8Decode(_)
utf8Decode(bytes) ==
  LET begins(q) == Len(bytes) >= Len(q) /\ SubSeq(bytes, 1, Len(q)) = q
      after(n) == SubSeq(bytes, n + 1, Len(bytes))
  IN IF bytes = <<>> THEN <<>>
     ELSE IF begins(<<"f0", "9f", "98", "80">>)
     THEN <<HighSurrogate, LowSurrogate>> \o utf8Decode(after(4))
     ELSE IF begins(<<"ef", "bf", "bd">>) THEN <<Replacement>> \o utf8Decode(after(3))
     ELSE IF begins(<<"c3", "a9">>) THEN <<"e9">> \o utf8Decode(after(2))
     ELSE IF Head(bytes) \in {"f0", "9f", "98", "80", "ef", "bf", "bd", "c3", "a9",
                              "junk"}
     THEN <<Replacement>> \o utf8Decode(after(1))
     ELSE <<Head(bytes)>> \o utf8Decode(after(1))

\* ---- JSON.stringify and JSON.parse on code units
KeyOrder == <<"a", "b">>
NumberTokens == {"0", "1"}
StringUnits == {"a", "b", "e9", "\\uD83D"}

\* a lone surrogate is written as an escape
Escape(x) == IF x = HighSurrogate THEN "\\uD83D" ELSE x
Unescape(x) == IF x = "\\uD83D" THEN HighSurrogate ELSE x

RECURSIVE JSON_stringify(_)
JSON_stringify(v) ==
  CASE v.t = "s" ->
         <<"\"">> \o (IF v.s = "" THEN <<>> ELSE <<Escape(v.s)>>) \o <<"\"">>
    [] v.t = "a" ->
         <<"[">>
           \o Join([i \in DOMAIN v.e |->
                      IF v.e[i] = Undefined THEN <<"null">>
                      ELSE JSON_stringify(v.e[i])], <<",">>)
           \o <<"]">>
    [] v.t = "o" ->
         LET ks == Filter(KeyOrder, LAMBDA k : Get(v, k) # Undefined)
         IN <<"{">>
              \o Join([i \in DOMAIN ks |->
                         <<"\"", ks[i], "\"", ":">> \o JSON_stringify(v.f[ks[i]])],
                      <<",">>)
              \o <<"}">>
    [] v.t = "n" -> <<"null">>
    [] OTHER -> <<v.s>>

\* a parse step: whether it succeeded, the value, the next position
ParseFailed == [ok |-> FALSE, v |-> Null, n |-> 0]
Parsed(v, n) == [ok |-> TRUE, v |-> v, n |-> n]

ParseString(u, i) ==
  IF i + 1 <= Len(u) /\ u[i + 1] = "\"" THEN Parsed(Str(""), i + 2)
  ELSE IF i + 2 <= Len(u) /\ u[i + 1] \in StringUnits /\ u[i + 2] = "\""
  THEN Parsed(Str(Unescape(u[i + 1])), i + 3)
  ELSE ParseFailed

RECURSIVE ParseValue(_, _)
RECURSIVE ParseElements(_, _, _)
RECURSIVE ParseMembers(_, _, _)
ParseValue(u, i) ==
  IF i > Len(u) THEN ParseFailed
  ELSE CASE u[i] = "null" -> Parsed(Null, i + 1)
         [] u[i] \in {"true", "false"} -> Parsed(Bool(u[i]), i + 1)
         [] u[i] \in NumberTokens -> Parsed(Num(u[i]), i + 1)
         [] u[i] = "\"" -> ParseString(u, i)
         [] u[i] = "[" ->
              IF i + 1 <= Len(u) /\ u[i + 1] = "]" THEN Parsed(Arr(<<>>), i + 2)
              ELSE ParseElements(u, i + 1, <<>>)
         [] u[i] = "{" ->
              IF i + 1 <= Len(u) /\ u[i + 1] = "}" THEN Parsed(EmptyObj, i + 2)
              ELSE ParseMembers(u, i + 1, EmptyObj)
         [] OTHER -> ParseFailed

ParseElements(u, i, acc) ==
  LET r == ParseValue(u, i)
  IN IF ~r.ok \/ r.n > Len(u) THEN ParseFailed
     ELSE IF u[r.n] = "," THEN ParseElements(u, r.n + 1, Append(acc, r.v))
     ELSE IF u[r.n] = "]" THEN Parsed(Arr(Append(acc, r.v)), r.n + 1)
     ELSE ParseFailed

ParseMembers(u, i, acc) ==
  LET k == IF i <= Len(u) /\ u[i] = "\"" THEN ParseString(u, i) ELSE ParseFailed
      r == IF k.ok /\ k.n <= Len(u) /\ u[k.n] = ":" THEN ParseValue(u, k.n + 1)
           ELSE ParseFailed
  IN IF ~r.ok \/ r.n > Len(u) THEN ParseFailed
     ELSE IF u[r.n] = "," THEN ParseMembers(u, r.n + 1, Put(acc, k.v.s, r.v))
     ELSE IF u[r.n] = "}" THEN Parsed(Put(acc, k.v.s, r.v), r.n + 1)
     ELSE ParseFailed

\* JSON.parse: the whole text must be one value
JSON_parse(u) ==
  LET r == ParseValue(u, 1)
  IN IF r.ok /\ r.n = Len(u) + 1 THEN r ELSE ParseFailed

\* ---- Buffers, base64, key derivation, AES-256-GCM
AUTH_TAG_LENGTH == 16

\* buf.toString('base64'): the unread bits of the last character are zero
toBase64(buf) == [kind |-> "string", bytes |-> buf, slack |-> 0]
\* Buffer.from(text, 'base64'): the unread bits are not looked at
fromBase64(text) == text.bytes
\* a field that is not there
NoText == [kind |-> "undefined", bytes |-> <<>>, slack |-> 0]

deriveKey(password, salt) == [password |-> password, salt |-> salt]

\* cipher.update + cipher.final
Encipher(key, iv, plain) ==
  [i \in DOMAIN plain |-> [k |-> key, iv |-> iv, i |-> i, b |-> plain[i], x |-> 0]]
\* decipher.update
Decipher(key, iv, ciphertext) ==
  [i \in DOMAIN ciphertext |->
     LET c == ciphertext[i]
     IN IF c.k = key /\ c.iv = iv /\ c.i = i /\ c.x = 0 THEN c.b ELSE "junk"]
\* cipher.getAuthTag
AuthTag(key, iv, ciphertext) ==
  [k |-> key, iv |-> iv, over |-> ciphertext, length |-> AUTH_TAG_LENGTH, x |-> 0]

\* the result of decrypt: a string or null
Plain(units) == [isNull |-> FALSE, text |-> units]
DecryptNull == [isNull |-> TRUE, text |-> <<>>]

encrypt(data, password, iv, salt) ==
  LET key == deriveKey(password, salt)
      encrypted == Encipher(key, iv, utf8Encode(data))
      authTag == AuthTag(key, iv, encrypted)
  IN [version |-> Num("1"),
      iv |-> toBase64(iv),
      salt |-> toBase64(salt),
      authTag |-> toBase64(<<authTag>>),
      ciphertext |-> toBase64(encrypted)]

\* the tag is not verified
decrypt_unauthenticated(encryptedData, password) ==
  IF encryptedData.version # Num("1") THEN DecryptNull
  ELSE IF \E fld \in {"iv", "salt", "authTag", "ciphertext"} :
             encryptedData[fld].kind # "string"
  THEN DecryptNull
  ELSE Plain(utf8Decode(Decipher(deriveKey(password, fromBase64(encryptedData.salt)),
                                 fromBase64(encryptedData.iv),
                                 fromBase64(encryptedData.ciphertext))))

\* every throw inside the try block ends in the catch block's return null
decrypt(encryptedData, password) ==
  IF encryptedData.version # Num("1") THEN DecryptNull
  ELSE IF \E fld \in {"iv", "salt", "authTag", "ciphertext"} :
             encryptedData[fld].kind # "string"
  THEN DecryptNull                        \* Buffer.from throws
  ELSE
    LET iv == fromBase64(encryptedData.iv)
        salt == fromBase64(encryptedData.salt)
        authTag == fromBase64(encryptedData.authTag)
        ciphertext == fromBase64(encryptedData.ciphertext)
        key == deriveKey(password, salt)
    IN IF iv = <<>> THEN DecryptNull      \* createDecipheriv throws
       ELSE IF Len(authTag) # 1 \/ authTag[1].length # AUTH_TAG_LENGTH
       THEN DecryptNull                   \* setAuthTag throws
       ELSE IF authTag[1] # AuthTag(key, iv, ciphertext)
       THEN DecryptNull                   \* decipher.final throws
       ELSE Plain(utf8Decode(Decipher(key, iv, ciphertext)))

CryptoService_encryptObject(obj, password, iv, salt) ==
  encrypt(JSON_stringify(obj), password, iv, salt)

\* null is the JSON value Null
CryptoService_decryptObject(encryptedData, password) ==
  LET json == decrypt(encryptedData, password)
  IN IF json.isNull \/ json.text = <<>> THEN Null
     ELSE IF JSON_parse(json.text).ok THEN JSON_parse(json.text).v
     ELSE Null

\* ---- what is tried
Passwords == {"pw", "other", ""}
IVs == {<<"iv1">>, <<"iv2">>}
Salts == {<<"salt1">>, <<"salt2">>}

\* strings that are not JSON texts: empty, plain, accented, an emoji (a
\* surrogate pair), unpaired surrogates, a text cut short
LooseStrings ==
  {<<>>, <<"a">>, <<"a", "e9">>, <<HighSurrogate, LowSurrogate>>,
   <<"a", HighSurrogate>>, <<LowSurrogate, "a">>, <<Replacement>>,
   <<"{", "\"", "a", "\"", ":">>, <<"[", "1", ",", "]">>}

\* JSON values
Objects ==
  {Null, Bool("true"), Num("0"), Num("1"), Str(""), Str("a"), Str("e9"),
   Str(HighSurrogate), EmptyObj, Arr(<<>>), Arr(<<Num("1"), Null>>),
   Obj([a |-> Str("e9")]), Obj([a |-> Num("1"), b |-> Arr(<<Str("a")>>)]),
   Obj([b |-> Obj([a |-> Bool("false")])])}

Tamperings ==
  {"ciphertext", "authTag", "iv", "salt", "shortTag", "emptyCiphertext",
   "version2", "versionText", "noVersion", "noTag", "noIv", "tagSpelling",
   "ciphertextSpelling"}

\* a ciphertext byte that no encryption produced
StrayByte ==
  [k |-> deriveKey("", <<>>), iv |-> <<>>, i |-> 0, b |-> "junk", x |-> 1]

\* the changes that leave the decoded bytes as they were
Spellings == {"tagSpelling", "ciphertextSpelling"}

\* the last base64 character of a text carries bits the decoder skips
HasSlack(text) == Len(text.bytes) % 3 # 0

\* the envelope after the change named
Tampered(e, how) ==
  LET flipFirst(text) ==
        [text EXCEPT !.bytes = IF @ = <<>> THEN <<StrayByte>>
                               ELSE [@ EXCEPT ![1] = [@ EXCEPT !.x = 1]]]
  IN CASE how = "ciphertext" -> [e EXCEPT !.ciphertext = flipFirst(@)]
       [] how = "authTag" -> [e EXCEPT !.authTag = flipFirst(@)]
       [] how = "iv" -> [e EXCEPT !.iv = toBase64(<<"iv3">>)]
       [] how = "salt" -> [e EXCEPT !.salt = toBase64(<<"salt3">>)]
       [] how = "shortTag" ->
            [e EXCEPT !.authTag.bytes = [@ EXCEPT ![1] = [@ EXCEPT !.length = 12]]]
       [] how = "emptyCiphertext" -> [e EXCEPT !.ciphertext = toBase64(<<>>)]
       [] how = "version2" -> [e EXCEPT !.version = Num("2")]
       [] how = "versionText" -> [e EXCEPT !.version = Str("1")]
       [] how = "noVersion" -> [e EXCEPT !.version = Undefined]
       [] how = "noTag" -> [e EXCEPT !.authTag = NoText]
       [] how = "noIv" -> [e EXCEPT !.iv = toBase64(<<>>)]
       [] how = "tagSpelling" -> [e EXCEPT !.authTag.slack = 1]
       [] how = "ciphertextSpelling" ->
            IF HasSlack(e.ciphertext) THEN [e EXCEPT !.ciphertext.slack = 1] ELSE e

NoEnvelope ==
  [version |-> Undefined, iv |-> NoText, salt |-> NoText, authTag |-> NoText,
   ciphertext |-> NoText]

InitCrypto ==
  /\ \E pw \in Passwords :
       \/ \E m \in LooseStrings :
            crypt = [src |-> "string", m |-> m, o |-> Undefined, password |-> pw,
                     pc |-> "start", envelope |-> NoEnvelope,
                     tamper |-> "none", tried |-> "", out |-> DecryptNull,
                     obj |-> Null]
       \/ \E o \in Objects :
            crypt = [src |-> "object", m |-> JSON_stringify(o), o |-> o,
                     password |-> pw, pc |-> "start", envelope |-> NoEnvelope,
                     tamper |-> "none", tried |-> "",
                     out |-> DecryptNull, obj |-> Null]
  /\ mapper = "-" /\ vault = "-"
  /\ SanParked /\ MergeParked /\ SysParked /\ FleetParked /\ TimedParked

CallEncrypt ==
  /\ crypt.pc = "start" /\ crypt.src = "string"
  /\ \E iv \in IVs, salt \in Salts :
       crypt' = [crypt EXCEPT
                   !.pc = "sealed",
                   !.envelope = encrypt(crypt.m, crypt.password, iv, salt)]
  /\ UNCHANGED <<sanVars, mergeVars, sysVars, fleet, timedVars, mapper, vault>>

CallEncryptObject ==
  /\ crypt.pc = "start" /\ crypt.src = "object"
  /\ \E iv \in IVs, salt \in Salts :
       crypt' = [crypt EXCEPT
                   !.pc = "sealed",
                   !.envelope =
                     CryptoService_encryptObject(crypt.o, crypt.password, iv, salt)]
  /\ UNCHANGED <<sanVars, mergeVars, sysVars, fleet, timedVars, mapper, vault>>

\* the envelope is changed while it is stored
Tamper ==
  /\ crypt.pc = "sealed" /\ crypt.tamper = "none"
  /\ \E how \in Tamperings :
       /\ Tampered(crypt.envelope, how) # crypt.envelope
       /\ crypt' = [crypt EXCEPT !.tamper = how,
                                  !.envelope = Tampered(crypt.envelope, how)]
  /\ UNCHANGED <<sanVars, mergeVars, sysVars, fleet, timedVars, mapper, vault>>

\* decrypt and decryptObject are called on the stored envelope
CallDecrypt ==
  /\ crypt.pc = "sealed"
  /\ \E pw \in Passwords :
       crypt' = [crypt EXCEPT
                   !.pc = "opened",
                   !.tried = pw,
                   !.out = decrypt(crypt.envelope, pw),
                   !.obj = CryptoService_decryptObject(crypt.envelope, pw)]
  /\ UNCHANGED <<sanVars, mergeVars, sysVars, fleet, timedVars, mapper, vault>>

NextCrypto ==
  \/ CallEncrypt
  \/ CallEncryptObject
  \/ Tamper
  \/ CallDecrypt

SpecCrypto == InitCrypto /\ [][NextCrypto]_vars

\* no surrogate stands without its partner
WellFormed(units) ==
  \A i \in DOMAIN units :
     /\ units[i] = HighSurrogate => (i < Len(units) /\ units[i + 1] = LowSurrogate)
     /\ units[i] = LowSurrogate => (i > 1 /\ units[i - 1] = HighSurrogate)

\* the stored envelope was opened, unchanged, with the password that made it
RoundTrip ==
  crypt.pc = "opened" /\ crypt.tamper = "none" /\ crypt.tried = crypt.password

\* C26 as stated: for every string m and password pw,
\* decrypt(encrypt(m, pw), pw) is m, and for every JSON value o,
\* decryptObject(encryptObject(o, pw), pw) equals o.
C26_Original ==
  RoundTrip =>
    /\ crypt.out = Plain(crypt.m)
    /\ crypt.src = "object" => crypt.obj = crypt.o

\* C26, amended: the same for every string m in which no surrogate is
\* unpaired (every JSON text is such a string).
C26_RoundTripOfWellFormedStrings ==
  (RoundTrip /\ WellFormed(crypt.m)) =>
    /\ crypt.out = Plain(crypt.m)
    /\ crypt.src = "object" => crypt.obj = crypt.o

\* an object holding an accented string came back from encryptObject and
\* decryptObject, and the JSON text in between came back from decrypt
C26_Witness ==
  /\ RoundTrip
  /\ crypt.o = Obj([a |-> Str("e9")])
  /\ crypt.obj = crypt.o
  /\ crypt.out = Plain(<<"{", "\"", "a", "\"", ":", "\"", "e9", "\"", "}">>)
  /\ crypt.password = ""

\* what the envelope encrypt made opens to
Opening == Plain(utf8Decode(utf8Encode(crypt.m)))

\* C27 as stated: decrypt returns null for every envelope that is not the
\* unchanged output of encrypt under the same password (another password,
\* any change to a field, another version, a malformed envelope), and
\* decryptObject returns null then and when the text is not JSON.
C27_Original ==
  crypt.pc = "opened" =>
    /\ (crypt.tamper # "none" \/ crypt.tried # crypt.password)
         => (crypt.out = DecryptNull /\ crypt.obj = Null)
    /\ crypt.src = "string" => crypt.obj = Null

\* C27, amended: decrypt returns null for another password, for another
\* version, for a malformed envelope and for every change to the bytes that
\* iv, salt, authTag or ciphertext decode to; an envelope whose base64 text
\* is spelled differently but decodes to the same bytes opens as the
\* original does.  decrypt never returns anything but null or that opening,
\* and decryptObject returns null whenever decrypt does or the text is not
\* JSON.
C27_UniformFailure ==
  crypt.pc = "opened" =>
    /\ (crypt.tamper \in Tamperings \ Spellings \/ crypt.tried # crypt.password)
         => (crypt.out = DecryptNull /\ crypt.obj = Null)
    /\ (crypt.tamper \in Spellings /\ crypt.tried = crypt.password)
         => crypt.out = Opening
    /\ crypt.out \in {DecryptNull, Opening}
    /\ crypt.src = "string" => crypt.obj = Null

\* a changed ciphertext byte was met with the right password and refused
C27_Witness ==
  /\ crypt.pc = "opened"
  /\ crypt.tamper = "ciphertext"
  /\ crypt.tried = crypt.password
  /\ crypt.m = <<"a", "e9">>
  /\ crypt.out = DecryptNull

(***************************************************************************)
(* SpecPassword: the master password of SyncService.  The plugin config    *)
(* holds masterPasswordHash and masterPasswordSalt (base64 texts, or        *)
(* nothing); the password itself lives in the masterPassword field only.   *)
(* PBKDF2 is symbolic: its 64 bytes are two halves that name the password  *)
(* and the salt they were derived from, so two derivations agree exactly   *)
(* when both inputs agree.                                                 *)
(***************************************************************************)

\* crypto.pbkdf2Sync(password, salt, PBKDF2_ITERATIONS, 64, 'sha512')
pbkdf2Sync(password, salt) ==
  <<[password |-> password, salt |-> salt, half |-> 1],
    [password |-> password, salt |-> salt, half |-> 2]>>

\* crypto.timingSafeEqual: throws when the lengths differ
timingSafeEqual(a, b) ==
  IF Len(a) # Len(b) THEN [threw |-> TRUE, eq |-> FALSE]
  ELSE [threw |-> FALSE, eq |-> a = b]

\* crypto.randomBytes(SALT_LENGTH) is the salt the caller draws
generatePasswordHash(password, salt) ==
  [hash |-> toBase64(pbkdf2Sync(password, salt)), salt |-> toBase64(salt)]

\* verifyPassword that trusts any hash of the right length
verifyPassword_anyHash(password, storedHash, storedSalt) ==
  LET salt == fromBase64(storedSalt)
      hash == pbkdf2Sync(password, salt)
      cmp  == timingSafeEqual(hash, fromBase64(storedHash))
  IN  ~cmp.threw

verifyPassword(password, storedHash, storedSalt) ==
  LET salt == fromBase64(storedSalt)
      hash == pbkdf2Sync(password, salt)
      cmp  == timingSafeEqual(hash, fromBase64(storedHash))
  IN  IF cmp.threw THEN FALSE ELSE cmp.eq

\* a field of the plugin config that `&&` takes as set
IsSet(text) == text.kind = "string" /\ text.bytes # <<>>

\* isPasswordConfigured
isPasswordConfigured == IsSet(vault.hash) /\ IsSet(vault.salt)

\* what the config can hold when the service starts: nothing, a pair
\* written by setupMasterPassword, a pair whose hash was cut short, a hash
\* without its salt
StoredPairs ==
  {[hash |-> NoText, salt |-> NoText]}
    \cup {generatePasswordHash(q, s) : q \in Passwords, s \in Salts}
    \cup {[hash |-> toBase64(SubSeq(pbkdf2Sync(q, s), 1, 1)), salt |-> toBase64(s)] :
            q \in Passwords, s \in Salts}
    \cup {[hash |-> toBase64(pbkdf2Sync(q, s)), salt |-> NoText] :
            q \in Passwords, s \in Salts}

InitPassword ==
  /\ \E st \in StoredPairs :
       vault = [hash |-> st.hash, salt |-> st.salt, masterPassword |-> "null",
                op |-> "none", p |-> "", ret |-> FALSE, saved |-> FALSE,
                before |-> "null", hashBefore |-> st.hash,
                saltBefore |-> st.salt]
  /\ mapper = "-" /\ crypt = "-"
  /\ SanParked /\ MergeParked /\ SysParked /\ FleetParked /\ TimedParked

\* the call is entered: what it finds is kept for comparison
Entered(op, p) ==
  [vault EXCEPT !.op = op, !.p = p, !.ret = FALSE, !.saved = FALSE,
                !.before = vault.masterPassword,
                !.hashBefore = vault.hash, !.saltBefore = vault.salt]

CallSetMasterPassword ==
  /\ \E password \in Passwords :
       LET v == Entered("setMasterPassword", password) IN
       IF isPasswordConfigured
            /\ ~verifyPassword(password, vault.hash, vault.salt)
       THEN vault' = v
       ELSE vault' = [v EXCEPT !.masterPassword = password, !.ret = TRUE]
  /\ UNCHANGED <<sanVars, mergeVars, sysVars, fleet, timedVars, mapper, crypt>>

\* savePluginConfig puts the pair in the store and awaits config.save();
\* when that rejects the password is not taken
CallSetupMasterPassword ==
  /\ \E password \in Passwords, salt \in Salts, saveOk \in BOOLEAN :
       LET v  == Entered("setupMasterPassword", password)
           hs == generatePasswordHash(password, salt)
       IN  vault' = [v EXCEPT !.hash = hs.hash, !.salt = hs.salt,
                              !.saved = TRUE, !.ret = saveOk,
                              !.masterPassword =
                                 IF saveOk THEN password ELSE @]
  /\ UNCHANGED <<sanVars, mergeVars, sysVars, fleet, timedVars, mapper, crypt>>

CallClearPassword ==
  /\ vault' = [Entered("clearPassword", "") EXCEPT !.masterPassword = "null"]
  /\ UNCHANGED <<sanVars, mergeVars, sysVars, fleet, timedVars, mapper, crypt>>

NextPassword ==
  \/ CallSetMasterPassword
  \/ CallSetupMasterPassword
  \/ CallClearPassword

SpecPassword == InitPassword /\ [][NextPassword]_vars

\* the stored hash is the derivation of this password under the stored salt
VerifiesAgainstStored(p) ==
  fromBase64(vault.hashBefore) = pbkdf2Sync(p, fromBase64(vault.saltBefore))

\* C39: with a hash and a salt stored, setMasterPassword(p) returns true and
\* holds p in memory exactly when p verifies against the stored hash, and
\* otherwise returns false and leaves the password in memory as it was;
\* with no hash stored it accepts any password and holds it; in no case
\* does it write anything to the plugin config.
C39_SetMasterPassword ==
  vault.op = "setMasterPassword" =>
    /\ (IsSet(vault.hashBefore) /\ IsSet(vault.saltBefore)) =>
         /\ vault.ret = VerifiesAgainstStored(vault.p)
         /\ vault.ret => vault.masterPassword = vault.p
         /\ ~vault.ret => vault.masterPassword = vault.before
    /\ ~IsSet(vault.hashBefore) =>
         (vault.ret /\ vault.masterPassword = vault.p)
    /\ ~vault.saved
    /\ vault.hash = vault.hashBefore /\ vault.salt = vault.saltBefore

\* an unlocked service was given a password that does not verify and kept
\* the one it had
C39_Witness ==
  /\ vault.op = "setMasterPassword"
  /\ IsSet(vault.hashBefore) /\ IsSet(vault.saltBefore)
  /\ vault.before = "pw" /\ vault.p = "other"
  /\ ~vault.ret
  /\ vault.masterPassword = "pw"

====
